---- MODULE Spec2Model ----
(***************************************************************************)
(* Model of StripeService (src/unnamed/part_004): the webhook dispatcher   *)
(* handleWebhookEvent, the webhook-event ledger (logWebhookEvent,          *)
(* updateWebhookEventStatus), the subscription handlers and                *)
(* handleInvoicePaymentFailed with recordTransaction.                      *)
(*                                                                         *)
(* Every `await` of the source is a suspension point: one action of the    *)
(* model is one awaited store or processor call together with the          *)
(* synchronous code that follows it up to the next await.  Deliveries run  *)
(* as independent concurrent tasks (one per element of Procs).             *)
(***************************************************************************)
EXTENDS Integers, Sequences, FiniteSets

VARIABLES
    env,              \* process.env.STRIPE_WEBHOOK_LOGGING_ENABLED
    users,            \* userRepository: user id -> row
    webhookEvents,    \* webhookEventRepository: sequence of rows
    subscriptions,    \* subscriptionRepository: sequence of rows
    transactions,     \* transactionRepository: sequence of rows
    paymentMethods,   \* paymentMethodRepository: sequence of rows
    customers,        \* the processor's customers: sequence of customer objects
    proc,             \* per delivery: position in handleWebhookEvent and locals
    handledOk,        \* history: events whose handler returned without error
    deliveries,       \* history: number of handleWebhookEvent calls started
    calc,             \* a call of a pure function: its arguments and its result
    config,           \* ConfigService: PAYMENTS_MODE, STRIPE_SECRET_KEY
    isEnabled,        \* StripeService.isEnabled
    link              \* per caller: position in the customer linker and locals

vars == <<env, users, webhookEvents, subscriptions, transactions,
          paymentMethods, customers, proc, handledOk, deliveries, calc,
          config, isEnabled, link>>

----------------------------------------------------------------------------
(* Bounds *)

\* total number of handleWebhookEvent calls in one behaviour of Spec
MaxDeliveries == 3

\* total number of handleWebhookEvent calls in one behaviour of SpecSub
MaxSubDeliveries == 3

\* total number of handleWebhookEvent calls in one behaviour of SpecAll
MaxAllDeliveries == 2

\* total number of handleWebhookEvent calls in one behaviour of SpecTx
MaxTxDeliveries == 2

\* the numeric timestamps given to the pure functions are -MaxSeconds..MaxSeconds
MaxSeconds == 2

\* total number of customer-linker calls in one behaviour of SpecLink
MaxLinkCalls == 3

\* total number of session-creating calls in one behaviour of SpecConfig
MaxSessionCalls == 3

\* total number of updateTransactionStatus calls in one behaviour of SpecStatus
MaxStatusUpdates == 1

\* the concurrent deliveries (independent HTTP requests)
Procs == {"d1", "d2"}

\* the concurrent callers of the customer linker (independent requests)
Callers == {"c1", "c2"}

----------------------------------------------------------------------------
(* Values *)

\* a JS value that is null / undefined / NaN / a non-number / a number
Num(v) == [kind |-> "number", v |-> v]
JsNull == [kind |-> "null", v |-> 0]
JsUndefined == [kind |-> "undefined", v |-> 0]
JsNaN == [kind |-> "NaN", v |-> 0]
JsString == [kind |-> "string", v |-> 0]

\* a Date | null
NullDate == [isNull |-> TRUE, ms |-> 0]
DateOf(ms) == [isNull |-> FALSE, ms |-> ms]

\* new Date(): the processing time; the model keeps one instant (epoch ms, scaled to TLC integers)
Now == DateOf(1750000)

\* charge.balance_transaction when it is not an expanded object
NoBalanceTransaction == [present |-> FALSE, fee |-> 0, net |-> 0]

\* a decimal amount | undefined
Money(units, cents) == [defined |-> TRUE, units |-> units, cents |-> cents]
NoMoney == [defined |-> FALSE, units |-> 0, cents |-> 0]

NoUser == "no_user"

\* the value of an environment variable that is not set
Unset == "undefined"

\* const webhookLoggingEnabled = process.env.STRIPE_WEBHOOK_LOGGING_ENABLED === 'true'
loggingEnabled_AnyValue == env # Unset
loggingEnabled == env = "true"

\* WebhookProcessingStatus
PENDING == "PENDING"
COMPLETED == "COMPLETED"
FAILED == "FAILED"
RETRYING == "RETRYING"

\* SubscriptionStatus
TRIALING == "TRIALING"
ACTIVE == "ACTIVE"
PAST_DUE == "PAST_DUE"
CANCELED == "CANCELED"
UNPAID == "UNPAID"
INCOMPLETE == "INCOMPLETE"

\* the status strings the processor reports; "paused" is one the mapping
\* does not know
StripeStatuses ==
    {"trialing", "active", "past_due", "canceled", "unpaid", "incomplete",
     "paused"}

----------------------------------------------------------------------------
(* Pure functions *)

\* !timestamp in JavaScript: null, undefined, NaN and 0 are falsy
Falsy(t) == t.kind \in {"null", "undefined", "NaN"} \/ (t.kind = "number" /\ t.v = 0)

convertStripeTimestamp(t) ==
    IF Falsy(t) \/ t.kind # "number" \/ t.kind = "NaN"
    THEN NullDate
    ELSE DateOf(t.v * 1000)

mapStripeSubscriptionStatus_DefaultIncomplete(s) ==
    CASE s = "trialing" -> TRIALING
      [] s = "active" -> ACTIVE
      [] s = "past_due" -> PAST_DUE
      [] s = "canceled" -> CANCELED
      [] s = "unpaid" -> UNPAID
      [] OTHER -> INCOMPLETE
mapStripeSubscriptionStatus(s) ==
    CASE s = "trialing" -> TRIALING
      [] s = "active" -> ACTIVE
      [] s = "past_due" -> PAST_DUE
      [] s = "canceled" -> CANCELED
      [] s = "unpaid" -> UNPAID
      [] s = "incomplete" -> INCOMPLETE
      [] OTHER -> ACTIVE

\* the period start of handleSubscriptionCreated / handleSubscriptionUpdated:
\* the branch is chosen by truthiness, the chosen candidate is then converted
PeriodStart_NoCreated(e) ==
    IF ~Falsy(e.item_period_start) THEN convertStripeTimestamp(e.item_period_start)
    ELSE IF ~Falsy(e.billing_cycle_anchor) THEN convertStripeTimestamp(e.billing_cycle_anchor)
    ELSE NullDate
PeriodStart(e) ==
    IF ~Falsy(e.item_period_start) THEN convertStripeTimestamp(e.item_period_start)
    ELSE IF ~Falsy(e.billing_cycle_anchor) THEN convertStripeTimestamp(e.billing_cycle_anchor)
    ELSE convertStripeTimestamp(e.created)

PeriodEnd(e) ==
    IF ~Falsy(e.item_period_end) THEN convertStripeTimestamp(e.item_period_end)
    ELSE NullDate

\* amount / 100: minor units to the major unit, kept exact as units and cents
ToMajor_NoDivision(c) == Money(c, 0)
ToMajor(c) == Money(c \div 100, c % 100)

\* String.prototype.toUpperCase on the currency codes of the model
toUpperCase_Identity(s) == s
toUpperCase(s) ==
    CASE s = "usd" -> "USD"
      [] s = "Usd" -> "USD"
      [] s = "eur" -> "EUR"
      [] OTHER -> s

\* the values a timestamp field of the processor's payload can hold
Timestamps ==
    {JsNull, JsUndefined, JsNaN, JsString}
    \cup {Num(v) : v \in (0 - MaxSeconds)..MaxSeconds}

\* the strings given to mapStripeSubscriptionStatus: the processor's
\* statuses and strings that are none of them
StatusStrings == StripeStatuses \cup {"incomplete_expired", "", "ACTIVE"}

\* a call of a pure function: arguments a, b, c and the Date | null it
\* returned, or the status string and the SubscriptionStatus it returned
NoCalc ==
    [op |-> "none", a |-> JsUndefined, b |-> JsUndefined, c |-> JsUndefined,
     out |-> NullDate, status |-> "none", mapped |-> "none"]

----------------------------------------------------------------------------
(* Events.  A Stripe event id determines the event, so the model uses the  *)
(* event itself as its id; n tells apart two events with equal payload.    *)

BaseEvent ==
    [type |-> "none", n |-> 0,
     customer |-> "cus_1", subscription |-> "sub_1", status |-> "active",
     item_period_start |-> JsUndefined, billing_cycle_anchor |-> Num(1700),
     created |-> Num(1700), item_period_end |-> JsUndefined,
     trial_start |-> JsNull, trial_end |-> JsNull,
     canceled_at |-> JsNull, ended_at |-> JsNull,
     amount_due |-> 0, currency |-> "usd", payment_intent |-> "pi_1",
     amount_total |-> 0, amount_paid |-> 0, amount |-> 0,
     amount_refunded |-> 0, refund_amount |-> JsUndefined,
     mode |-> "payment", invoice |-> "none",
     payment_method |-> "pm_1", card |-> TRUE]

NoEvent == BaseEvent

SubscriptionCreated(customer, status) ==
    [BaseEvent EXCEPT !.type = "customer.subscription.created", !.n = 1,
                      !.customer = customer, !.status = status]

SubscriptionUpdated(status) ==
    [BaseEvent EXCEPT !.type = "customer.subscription.updated", !.n = 1,
                      !.status = status]

SubscriptionDeleted ==
    [BaseEvent EXCEPT !.type = "customer.subscription.deleted", !.n = 1,
                      !.status = "canceled"]

\* status: what the processor's subscription object reports at that time
InvoicePaymentFailed(customer, status, n) ==
    [BaseEvent EXCEPT !.type = "invoice.payment_failed", !.n = n,
                      !.customer = customer, !.status = status,
                      !.amount_due = 5000]

\* a subscription object with the three period-start candidates
CandidatesEvent(item, anchor, created) ==
    [SubscriptionCreated("cus_1", "active") EXCEPT
        !.item_period_start = item, !.billing_cycle_anchor = anchor,
        !.created = created]

\* events that name a subscription the store has no row of
UnknownSubscriptionUpdated ==
    [SubscriptionUpdated("canceled") EXCEPT !.subscription = "sub_2"]

UnknownSubscriptionDeleted ==
    [SubscriptionDeleted EXCEPT !.subscription = "sub_2"]

\* the payment events: the amount is in minor units, under the field the
\* handler of the type reads
CheckoutSessionCompleted(customer, mode, amount_total, currency) ==
    [BaseEvent EXCEPT !.type = "checkout.session.completed", !.n = 1,
                      !.customer = customer, !.mode = mode,
                      !.amount_total = amount_total, !.currency = currency]

InvoicePaymentSucceeded(customer, amount_paid, currency) ==
    [BaseEvent EXCEPT !.type = "invoice.payment_succeeded", !.n = 1,
                      !.customer = customer, !.amount_paid = amount_paid,
                      !.currency = currency]

\* type: payment_intent.succeeded, payment_intent.payment_failed or
\* payment_intent.canceled; invoice: the invoice the intent pays, if any
PaymentIntentEvent(type, customer, invoice, amount, currency) ==
    [BaseEvent EXCEPT !.type = type, !.n = 1, !.customer = customer,
                      !.invoice = invoice, !.amount = amount,
                      !.currency = currency]

\* refund_amount: charge.refunds.data[0].amount, undefined without that list
ChargeRefunded(customer, refund_amount, amount_refunded, currency) ==
    [BaseEvent EXCEPT !.type = "charge.refunded", !.n = 1,
                      !.customer = customer, !.refund_amount = refund_amount,
                      !.amount_refunded = amount_refunded, !.currency = currency]

InvoicePaymentFailedOf(amount_due, currency) ==
    [InvoicePaymentFailed("cus_1", "active", 1) EXCEPT
        !.amount_due = amount_due, !.currency = currency]

InvoiceUpcoming(customer) ==
    [BaseEvent EXCEPT !.type = "invoice.upcoming", !.n = 1, !.customer = customer]

\* card: the payment method carries card details
PaymentMethodAttached(customer, card) ==
    [BaseEvent EXCEPT !.type = "payment_method.attached", !.n = 1,
                      !.customer = customer, !.card = card]

SubscriptionTrialWillEnd(customer) ==
    [BaseEvent EXCEPT !.type = "customer.subscription.trial_will_end", !.n = 1,
                      !.customer = customer]

PaymentIntentCreated ==
    [BaseEvent EXCEPT !.type = "payment_intent.created", !.n = 1]

\* the amounts and currencies of the payment events
Prices == {<<5000, "usd">>, <<1999, "eur">>}

PaymentIntentTypes ==
    {"payment_intent.succeeded", "payment_intent.payment_failed",
     "payment_intent.canceled"}

\* the session of a subscription checkout: it carries no payment intent
SubscriptionCheckout ==
    [CheckoutSessionCompleted("cus_1", "subscription", 5000, "usd") EXCEPT
        !.payment_intent = "none"]

\* the events of the transaction specification
TransactionEvents ==
    {SubscriptionCheckout} \cup
    {CheckoutSessionCompleted("cus_1", "payment", pr[1], pr[2]) : pr \in Prices}
    \cup {CheckoutSessionCompleted("cus_1", "subscription", 5000, "usd"),
          CheckoutSessionCompleted("none", "payment", 5000, "usd")}
    \cup {InvoicePaymentSucceeded("cus_1", pr[1], pr[2]) : pr \in Prices}
    \cup {InvoicePaymentSucceeded("cus_x", 5000, "usd")}
    \cup {InvoicePaymentFailedOf(pr[1], pr[2]) : pr \in Prices}
    \cup {InvoicePaymentFailed("cus_x", "active", 1)}
    \cup {PaymentIntentEvent(t, "cus_1", "none", pr[1], pr[2]) :
              t \in PaymentIntentTypes, pr \in Prices}
    \cup {PaymentIntentEvent("payment_intent.succeeded", "cus_1", "none", 5000, "Usd"),
          PaymentIntentEvent("payment_intent.succeeded", "cus_1", "in_1", 5000, "usd"),
          PaymentIntentEvent("payment_intent.canceled", "none", "none", 5000, "usd")}
    \cup {ChargeRefunded("cus_1", Num(pr[1]), pr[1], pr[2]) : pr \in Prices}
    \cup {ChargeRefunded("cus_1", JsUndefined, 1999, "usd")}

\* a subscription-created event with trial_start and trial_end as given
SubscriptionCreatedTrial(trial_start, trial_end) ==
    [SubscriptionCreated("cus_1", "trialing") EXCEPT
        !.trial_start = trial_start, !.trial_end = trial_end]

\* the events of the trial specification: creations with every combination
\* of a missing and a valid trial_start and trial_end, and later events of
\* the subscription, the update carrying a trial_start only
TrialEvents ==
    {SubscriptionCreatedTrial(a, b) : a \in {JsNull, Num(1)}, b \in {JsNull, Num(2)}}
    \cup {[SubscriptionUpdated("active") EXCEPT !.trial_start = Num(1)],
          SubscriptionDeleted, InvoicePaymentFailed("cus_1", "active", 1)}

\* a type the switch has no case for
Unhandled == [BaseEvent EXCEPT !.type = "customer.created", !.n = 1]

\* a customer id of a user, and one that no user has
Customers == {"cus_1", "cus_x"}

\* the events of the specification of all handlers: every type of the
\* switch, and for the types that look the user up a customer of each kind
AllEvents ==
    UNION {{CheckoutSessionCompleted(c, "payment", 5000, "usd"),
            InvoicePaymentSucceeded(c, 5000, "usd"),
            InvoicePaymentFailed(c, "active", 1),
            InvoiceUpcoming(c),
            PaymentMethodAttached(c, TRUE),
            SubscriptionCreated(c, "active"),
            SubscriptionTrialWillEnd(c),
            PaymentIntentEvent("payment_intent.succeeded", c, "none", 5000, "usd"),
            PaymentIntentEvent("payment_intent.payment_failed", c, "none", 5000, "usd"),
            PaymentIntentEvent("payment_intent.canceled", c, "none", 5000, "usd"),
            ChargeRefunded(c, Num(5000), 5000, "usd")} : c \in Customers}
    \cup {SubscriptionUpdated("past_due"), SubscriptionDeleted,
          PaymentMethodAttached("cus_1", FALSE), PaymentIntentCreated, Unhandled}

\* the events of the dispatcher specification
DispatchEvents ==
    {SubscriptionCreated("cus_1", "active"), SubscriptionUpdated("active"),
     SubscriptionDeleted, InvoicePaymentFailed("cus_1", "active", 1), Unhandled}

\* the events of the subscription specification
SubscriptionEvents ==
    {SubscriptionCreated(c, "active") : c \in {"cus_1", "cus_x"}}
    \cup {SubscriptionUpdated(st) : st \in StripeStatuses}
    \cup {SubscriptionDeleted, UnknownSubscriptionUpdated, UnknownSubscriptionDeleted}
    \cup {InvoicePaymentFailed("cus_1", st, 1) : st \in {"active", "past_due"}}
    \cup {InvoicePaymentFailed("cus_x", "active", 1)}

----------------------------------------------------------------------------
(* The store *)

\* a caller of the customer linker that is not in a call; prev is the
\* result of its previous call and n the number of calls it has started
IdleCall ==
    [pc |-> "idle", fn |-> "none", controller |-> FALSE,
     user |-> [stripeCustomerId |-> "none"], customer |-> "none",
     stripePaymentIntentId |-> "none", status |-> "none",
     failureReason |-> "undefined",
     result |-> "none", err |-> "none", prev |-> "none", n |-> 0]

\* a configuration with which every part of the service is enabled
EnabledConfig == [PAYMENTS_MODE |-> "both", STRIPE_SECRET_KEY |-> "sk_test"]

\* this.configService.get<string>(key, defaultValue)
ConfigGet(cfg, key, defaultValue) ==
    IF cfg[key] = Unset THEN defaultValue ELSE cfg[key]

\* const paymentsMode = this.configService.get<string>('PAYMENTS_MODE', 'none')
PaymentsMode(cfg) == ConfigGet(cfg, "PAYMENTS_MODE", "none")

\* this.isEnabled = paymentsMode !== 'none' && !!secretKey
constructor_isEnabled(cfg) ==
    /\ PaymentsMode(cfg) # "none"
    /\ cfg.STRIPE_SECRET_KEY \notin {Unset, ""}

\* users with their processor customer id
InitUsers == [u \in {"user_1"} |-> [stripeCustomerId |-> "cus_1"]]

\* userRepository.findOne({ where: { stripeCustomerId } })
FindUser_AnyUser(customerId) == "user_1"
FindUser(customerId) ==
    IF \E u \in DOMAIN users : users[u].stripeCustomerId = customerId
    THEN CHOOSE u \in DOMAIN users : users[u].stripeCustomerId = customerId
    ELSE NoUser

\* the unique column WebhookEvent.stripeEventId: an insert of a second row
\* with the same event id is refused by the store
EventIdTaken_None(rows, eventId) == FALSE
EventIdTaken(rows, eventId) ==
    \E i \in DOMAIN rows : rows[i].stripeEventId = eventId

\* the unique column UserSubscription.stripeSubscriptionId
SubscriptionIdTaken_None(rows, subId) == FALSE
SubscriptionIdTaken(rows, subId) ==
    \E i \in DOMAIN rows : rows[i].stripeSubscriptionId = subId

\* webhookEventRepository.create({... PENDING, retryCount: 0 })
NewWebhookEvent(e) ==
    [stripeEventId |-> e, eventType |-> e.type, processingStatus |-> PENDING,
     retryCount |-> 0, processedAt |-> NullDate, errorMessage |-> "none"]

\* webhookEventRepository.update({ stripeEventId }, updateData); an
\* errorMessage of undefined is no column of the update
StatusUpdate(rows, eventId, status, errorMessage) ==
    [i \in DOMAIN rows |->
        IF rows[i].stripeEventId = eventId
        THEN [rows[i] EXCEPT
                !.processingStatus = status,
                !.errorMessage = IF errorMessage = "undefined" THEN @ ELSE errorMessage,
                !.processedAt = IF status = COMPLETED THEN Now ELSE @]
        ELSE rows[i]]

\* webhookEventRepository.increment({ stripeEventId }, 'retryCount', 1)
IncrementRetryCount(rows, eventId) ==
    [i \in DOMAIN rows |->
        IF rows[i].stripeEventId = eventId
        THEN [rows[i] EXCEPT !.retryCount = @ + 1]
        ELSE rows[i]]

\* the ledger row of an event id, when there is one
EventRows(eventId) ==
    {i \in DOMAIN webhookEvents : webhookEvents[i].stripeEventId = eventId}

\* the row handleSubscriptionCreated builds; failedPaymentCount is the
\* entity's column default
NewSubscription_EachTrialDate(userId, e) ==
    LET trialStart == convertStripeTimestamp(e.trial_start)
        trialEnd == convertStripeTimestamp(e.trial_end)
        both == ~trialStart.isNull /\ ~trialEnd.isNull
    IN  [stripeSubscriptionId |-> e.subscription,
         userId |-> userId,
         status |-> mapStripeSubscriptionStatus(e.status),
         failedPaymentCount |-> 0,
         currentPeriodStart |-> PeriodStart(e),
         currentPeriodEnd |-> PeriodEnd(e),
         trialStartDate |-> trialStart,
         trialEndDate |-> trialEnd,
         canceledAt |-> NullDate,
         endedAt |-> NullDate]
NewSubscription(userId, e) ==
    LET trialStart == convertStripeTimestamp(e.trial_start)
        trialEnd == convertStripeTimestamp(e.trial_end)
        both == ~trialStart.isNull /\ ~trialEnd.isNull
    IN  [stripeSubscriptionId |-> e.subscription,
         userId |-> userId,
         status |-> mapStripeSubscriptionStatus(e.status),
         failedPaymentCount |-> 0,
         currentPeriodStart |-> PeriodStart(e),
         currentPeriodEnd |-> PeriodEnd(e),
         trialStartDate |-> IF both THEN trialStart ELSE NullDate,
         trialEndDate |-> IF both THEN trialEnd ELSE NullDate,
         canceledAt |-> NullDate,
         endedAt |-> NullDate]

\* the value of an entity variable that holds no row
NoSubscription == [NewSubscription(NoUser, NoEvent) EXCEPT !.status = "none"]

\* subscriptionRepository.findOne({ where: { stripeSubscriptionId } }): the
\* index of the first matching row, 0 when there is none
FindSubscription(subId) ==
    IF \E i \in DOMAIN subscriptions : subscriptions[i].stripeSubscriptionId = subId
    THEN CHOOSE i \in DOMAIN subscriptions :
            /\ subscriptions[i].stripeSubscriptionId = subId
            /\ \A j \in DOMAIN subscriptions :
                  subscriptions[j].stripeSubscriptionId = subId => i <= j
    ELSE 0

\* the failed-payment reset of handleSubscriptionUpdated
ResetFailedCount_Always(previousStatus, newStatus, count) ==
    IF newStatus = ACTIVE THEN 0 ELSE count
ResetFailedCount(previousStatus, newStatus, count) ==
    IF newStatus = ACTIVE /\ previousStatus = PAST_DUE THEN 0 ELSE count

\* the entity handleSubscriptionUpdated saves, from the row it read
UpdatedSubscription(s, e) ==
    LET newStatus == mapStripeSubscriptionStatus(e.status)
        periodStart == PeriodStart(e)
        periodEnd == PeriodEnd(e)
        canceledAt == convertStripeTimestamp(e.canceled_at)
        endedAt == convertStripeTimestamp(e.ended_at)
    IN  [s EXCEPT
            !.status = newStatus,
            !.currentPeriodStart = IF periodStart.isNull THEN @ ELSE periodStart,
            !.currentPeriodEnd = IF periodEnd.isNull THEN @ ELSE periodEnd,
            !.canceledAt = IF canceledAt.isNull THEN @ ELSE canceledAt,
            !.endedAt = IF endedAt.isNull THEN @ ELSE endedAt,
            !.failedPaymentCount = ResetFailedCount(s.status, newStatus, @)]

\* the entity handleSubscriptionDeleted saves
DeletedSubscription_NoEndedAt(s) ==
    [s EXCEPT !.status = CANCELED, !.canceledAt = Now]
DeletedSubscription(s) ==
    [s EXCEPT !.status = CANCELED, !.canceledAt = Now, !.endedAt = Now]

\* the entity handleInvoicePaymentFailed saves
FailedPaymentSubscription_NoForce(s) ==
    [s EXCEPT !.failedPaymentCount = @ + 1]
FailedPaymentSubscription(s) ==
    LET count == s.failedPaymentCount + 1
    IN  [s EXCEPT !.failedPaymentCount = count,
                  !.status = IF count = 1 THEN PAST_DUE ELSE @]

\* the description and the metadata object a handler builds from its event
Description(e) == <<"description", e.type>>
Metadata(e) == [event |-> e.type]

\* the row recordTransaction saves
recordTransaction(userId, stripePaymentIntentId, type, amount, currency, status, description, metadata, failureReason, stripeFee, netAmount) ==
    [userId |-> userId,
     description |-> description,
     metadata |-> metadata,
     stripePaymentIntentId |-> stripePaymentIntentId,
     transactionType |-> type,
     amount |-> amount,
     currency |-> toUpperCase(currency),
     status |-> status,
     failureReason |-> failureReason,
     stripeFee |-> stripeFee,
     netAmount |-> netAmount]

----------------------------------------------------------------------------
(* A delivery: one call of handleWebhookEvent *)

IdleProc ==
    [pc |-> "idle", ev |-> NoEvent, loggedEvent |-> FALSE, err |-> "none",
     user |-> NoUser, subIdx |-> 0, sub |-> NoSubscription,
     failureReason |-> "none", result |-> "none",
     read |-> NoSubscription,   \* the subscription row as findOne returned it
     stripeFee |-> NoMoney, netAmount |-> NoMoney,
     balanceTransaction |-> NoBalanceTransaction,
     \* history of this delivery
     recorded |-> 0,     \* the transactions this delivery has saved
     handler |-> "none", \* the handler the switch called
     lookupFailed |-> FALSE,  \* stripe.paymentIntents.retrieve threw
     ran |-> FALSE,      \* the switch called a handler
     hdone |-> FALSE,    \* the switch was left without an error
     raised |-> FALSE,   \* the handler or a ledger write raised an error
     dup |-> FALSE]      \* the ledger held a COMPLETED row of the event at the call

\* the locals of the handler are dead once it is left
ClearLocals(r) ==
    [r EXCEPT !.user = NoUser, !.subIdx = 0, !.sub = NoSubscription,
              !.read = NoSubscription, !.failureReason = "none",
              !.stripeFee = NoMoney, !.netAmount = NoMoney,
              !.balanceTransaction = NoBalanceTransaction]

\* what an awaited store call can fail with: an error whose message does not
\* name an event id, or one whose message contains 'event.id: <id>'
HandlerErrors == {"generic", "names"}
StoreErrors == {"generic"}

\* the catch block of handleWebhookEvent up to its first await: the status
\* is updated only when logging is enabled and the message names an event
\* id; the error is re-thrown in every case.  kind "signature" is the error
\* of constructEvent.
Thrown_Swallow(r, kind) ==
    [ClearLocals(r) EXCEPT !.raised = (kind # "signature"), !.err = kind,
                           !.pc = "done", !.result = "ok"]
Thrown(r, kind) ==
    IF loggingEnabled /\ kind = "names"
    THEN [ClearLocals(r) EXCEPT !.raised = TRUE, !.err = kind,
                                !.pc = "catch.increment"]
    ELSE [ClearLocals(r) EXCEPT !.raised = (kind # "signature"), !.err = kind,
                                !.pc = "done", !.result = "error"]

\* after the switch: mark COMPLETED when the event was logged, then return
AfterSwitch(r) ==
    IF r.loggedEvent
    THEN [ClearLocals(r) EXCEPT !.hdone = TRUE, !.pc = "markCompleted"]
    ELSE [ClearLocals(r) EXCEPT !.hdone = TRUE, !.pc = "done", !.result = "ok"]

\* if (object.customer) of the payment handlers: without a customer the
\* handler returns at once
WithCustomer(r, label) ==
    IF r.ev.customer # "none" THEN [r EXCEPT !.pc = label] ELSE AfterSwitch(r)

\* a case of the switch calls its handler
Call(r, name) == [r EXCEPT !.ran = TRUE, !.handler = name]

\* the switch over event.type up to the first await of the handler; the case
\* payment_intent.created only logs
Switch_DefaultDeletes(r) ==
    CASE r.ev.type = "checkout.session.completed" ->
            WithCustomer(Call(r, "handleCheckoutSessionCompleted"), "checkout.findUser")
      [] r.ev.type = "invoice.payment_succeeded" ->
            WithCustomer(Call(r, "handleInvoicePaymentSucceeded"), "invoiceSucceeded.findUser")
      [] r.ev.type = "invoice.payment_failed" ->
            [Call(r, "handleInvoicePaymentFailed") EXCEPT !.pc = "invoiceFailed.findUser"]
      [] r.ev.type = "invoice.upcoming" ->
            WithCustomer(Call(r, "handleInvoiceUpcoming"), "upcoming.findUser")
      [] r.ev.type = "payment_method.attached" ->
            WithCustomer(Call(r, "handlePaymentMethodAttached"), "attached.findUser")
      [] r.ev.type = "customer.subscription.created" ->
            [Call(r, "handleSubscriptionCreated") EXCEPT !.pc = "created.findUser"]
      [] r.ev.type = "customer.subscription.updated" ->
            [Call(r, "handleSubscriptionUpdated") EXCEPT !.pc = "updated.findOne"]
      [] r.ev.type = "customer.subscription.deleted" ->
            [Call(r, "handleSubscriptionDeleted") EXCEPT !.pc = "deleted.findOne"]
      [] r.ev.type = "customer.subscription.trial_will_end" ->
            [Call(r, "handleSubscriptionTrialWillEnd") EXCEPT !.pc = "trialWillEnd.findUser"]
      [] r.ev.type = "payment_intent.succeeded" ->
            WithCustomer(Call(r, "handlePaymentIntentSucceeded"), "piSucceeded.findUser")
      [] r.ev.type = "payment_intent.created" -> AfterSwitch(r)
      [] r.ev.type = "payment_intent.payment_failed" ->
            WithCustomer(Call(r, "handlePaymentIntentFailed"), "piFailed.findUser")
      [] r.ev.type = "payment_intent.canceled" ->
            WithCustomer(Call(r, "handlePaymentIntentCanceled"), "piCanceled.findUser")
      [] r.ev.type = "charge.refunded" ->
            WithCustomer(Call(r, "handleChargeRefunded"), "refunded.findUser")
      [] OTHER ->
            [Call(r, "handleSubscriptionDeleted") EXCEPT !.pc = "deleted.findOne"]
Switch(r) ==
    CASE r.ev.type = "checkout.session.completed" ->
            WithCustomer(Call(r, "handleCheckoutSessionCompleted"), "checkout.findUser")
      [] r.ev.type = "invoice.payment_succeeded" ->
            WithCustomer(Call(r, "handleInvoicePaymentSucceeded"), "invoiceSucceeded.findUser")
      [] r.ev.type = "invoice.payment_failed" ->
            [Call(r, "handleInvoicePaymentFailed") EXCEPT !.pc = "invoiceFailed.findUser"]
      [] r.ev.type = "invoice.upcoming" ->
            WithCustomer(Call(r, "handleInvoiceUpcoming"), "upcoming.findUser")
      [] r.ev.type = "payment_method.attached" ->
            WithCustomer(Call(r, "handlePaymentMethodAttached"), "attached.findUser")
      [] r.ev.type = "customer.subscription.created" ->
            [Call(r, "handleSubscriptionCreated") EXCEPT !.pc = "created.findUser"]
      [] r.ev.type = "customer.subscription.updated" ->
            [Call(r, "handleSubscriptionUpdated") EXCEPT !.pc = "updated.findOne"]
      [] r.ev.type = "customer.subscription.deleted" ->
            [Call(r, "handleSubscriptionDeleted") EXCEPT !.pc = "deleted.findOne"]
      [] r.ev.type = "customer.subscription.trial_will_end" ->
            [Call(r, "handleSubscriptionTrialWillEnd") EXCEPT !.pc = "trialWillEnd.findUser"]
      [] r.ev.type = "payment_intent.succeeded" ->
            WithCustomer(Call(r, "handlePaymentIntentSucceeded"), "piSucceeded.findUser")
      [] r.ev.type = "payment_intent.created" -> AfterSwitch(r)
      [] r.ev.type = "payment_intent.payment_failed" ->
            WithCustomer(Call(r, "handlePaymentIntentFailed"), "piFailed.findUser")
      [] r.ev.type = "payment_intent.canceled" ->
            WithCustomer(Call(r, "handlePaymentIntentCanceled"), "piCanceled.findUser")
      [] r.ev.type = "charge.refunded" ->
            WithCustomer(Call(r, "handleChargeRefunded"), "refunded.findUser")
      [] OTHER -> AfterSwitch(r)

\* the history of the events whose dispatch returned without an error
Handled(p) ==
    handledOk' = IF proc'[p].hdone THEN handledOk \cup {proc[p].ev} ELSE handledOk

Set(p, r) == proc' = [proc EXCEPT ![p] = r]

\* handleWebhookEvent is called with a payload: constructEvent verifies it
\* (a bad signature throws before anything is logged), then logWebhookEvent
\* is awaited
Deliver(p, e, max) ==
    /\ proc[p].pc \in {"idle", "done"}
    /\ deliveries < max
    /\ deliveries' = deliveries + 1
    /\ LET r == [IdleProc EXCEPT
                    !.ev = e,
                    !.dup = \E i \in EventRows(e) :
                               webhookEvents[i].processingStatus = COMPLETED]
       IN  \/ Set(p, [r EXCEPT !.pc = "logWebhookEvent"])
           \/ Set(p, Thrown(r, "signature"))
    /\ UNCHANGED <<config, isEnabled, link, calc, env, paymentMethods, customers, users, webhookEvents, subscriptions,
                   transactions, handledOk>>

\* logWebhookEvent, and the test of its result
logWebhookEvent_NoSave(p) ==
    /\ proc[p].pc = "logWebhookEvent"
    /\ Set(p, Switch([proc[p] EXCEPT !.loggedEvent = FALSE]))
    /\ Handled(p)
    /\ UNCHANGED <<config, isEnabled, link, calc, env, paymentMethods, customers, users, webhookEvents, subscriptions,
                   transactions, deliveries>>
logWebhookEvent_Always(p) ==
    /\ proc[p].pc = "logWebhookEvent"
    /\ \/ /\ ~EventIdTaken(webhookEvents, proc[p].ev)
          /\ webhookEvents' = Append(webhookEvents, NewWebhookEvent(proc[p].ev))
          /\ Set(p, [proc[p] EXCEPT !.loggedEvent = TRUE, !.pc = "markPending"])
       \/ /\ EventIdTaken(webhookEvents, proc[p].ev)
          /\ Set(p, Thrown(proc[p], "generic"))
          /\ UNCHANGED webhookEvents
    /\ Handled(p)
    /\ UNCHANGED <<config, isEnabled, link, calc, env, paymentMethods, customers, users, subscriptions,
                   transactions, deliveries>>
logWebhookEvent(p) ==
    /\ proc[p].pc = "logWebhookEvent"
    /\ IF ~loggingEnabled
       THEN /\ Set(p, Switch([proc[p] EXCEPT !.loggedEvent = FALSE]))
            /\ UNCHANGED webhookEvents
       ELSE \/ /\ ~EventIdTaken(webhookEvents, proc[p].ev)
               /\ webhookEvents' = Append(webhookEvents, NewWebhookEvent(proc[p].ev))
               /\ Set(p, [proc[p] EXCEPT !.loggedEvent = TRUE, !.pc = "markPending"])
            \/ /\ EventIdTaken(webhookEvents, proc[p].ev)
               /\ Set(p, Thrown(proc[p], "generic"))
               /\ UNCHANGED webhookEvents
            \/ /\ \E k \in StoreErrors : Set(p, Thrown(proc[p], k))
               /\ UNCHANGED webhookEvents
    /\ Handled(p)
    /\ UNCHANGED <<config, isEnabled, link, calc, env, paymentMethods, customers, users, subscriptions, transactions, deliveries>>

\* updateWebhookEventStatus for PENDING and COMPLETED: one awaited update
updateWebhookEventStatus_NoProcessedAt(rows, eventId, status) ==
    IF ~loggingEnabled THEN rows
    ELSE [i \in DOMAIN rows |->
            IF rows[i].stripeEventId = eventId
            THEN [rows[i] EXCEPT !.processingStatus = status] ELSE rows[i]]
updateWebhookEventStatus_AllRows(rows, eventId, status) ==
    IF ~loggingEnabled THEN rows
    ELSE [i \in DOMAIN rows |->
            [rows[i] EXCEPT !.processingStatus = status,
                            !.processedAt = IF status = COMPLETED THEN Now ELSE @]]
updateWebhookEventStatus(rows, eventId, status) ==
    IF ~loggingEnabled THEN rows
    ELSE StatusUpdate(rows, eventId, status, "undefined")

\* if (loggedEvent) await updateWebhookEventStatus(event.id, PENDING); switch
markPending_Completed(p) ==
    /\ proc[p].pc = "markPending"
    /\ webhookEvents' = updateWebhookEventStatus(webhookEvents, proc[p].ev, COMPLETED)
    /\ Set(p, Switch(proc[p]))
    /\ Handled(p)
    /\ UNCHANGED <<config, isEnabled, link, calc, env, paymentMethods, customers, users, subscriptions, transactions, deliveries>>
markPending(p) ==
    /\ proc[p].pc = "markPending"
    /\ \/ /\ webhookEvents' = updateWebhookEventStatus(webhookEvents, proc[p].ev, PENDING)
          /\ Set(p, Switch(proc[p]))
       \/ /\ \E k \in StoreErrors : Set(p, Thrown(proc[p], k))
          /\ UNCHANGED webhookEvents
    /\ Handled(p)
    /\ UNCHANGED <<config, isEnabled, link, calc, env, paymentMethods, customers, users, subscriptions, transactions, deliveries>>

\* if (loggedEvent) await updateWebhookEventStatus(event.id, COMPLETED); return
markCompleted(p) ==
    /\ proc[p].pc = "markCompleted"
    /\ \/ /\ webhookEvents' = updateWebhookEventStatus(webhookEvents, proc[p].ev, COMPLETED)
          /\ Set(p, [proc[p] EXCEPT !.pc = "done", !.result = "ok"])
       \/ /\ \E k \in StoreErrors : Set(p, Thrown(proc[p], k))
          /\ UNCHANGED webhookEvents
    /\ Handled(p)
    /\ UNCHANGED <<config, isEnabled, link, calc, env, paymentMethods, customers, users, subscriptions, transactions, deliveries>>

\* catch block, updateWebhookEventStatus(eventId, FAILED, message): the
\* awaited increment of retryCount; an error of it is logged and dropped
catchIncrement(p) ==
    /\ proc[p].pc = "catch.increment"
    /\ \/ /\ webhookEvents' = IncrementRetryCount(webhookEvents, proc[p].ev)
          /\ Set(p, [proc[p] EXCEPT !.pc = "catch.update"])
       \/ /\ Set(p, [proc[p] EXCEPT !.pc = "done", !.result = "error"])
          /\ UNCHANGED webhookEvents
    /\ UNCHANGED <<config, isEnabled, link, calc, env, paymentMethods, customers, users, subscriptions, transactions,
                   handledOk, deliveries>>

\* catch block: the awaited update to FAILED, then throw error
catchUpdate(p) ==
    /\ proc[p].pc = "catch.update"
    /\ \/ webhookEvents' = StatusUpdate(webhookEvents, proc[p].ev, FAILED, "error.message")
       \/ UNCHANGED webhookEvents
    /\ Set(p, [proc[p] EXCEPT !.pc = "done", !.result = "error"])
    /\ UNCHANGED <<config, isEnabled, link, calc, env, paymentMethods, customers, users, subscriptions, transactions,
                   handledOk, deliveries>>

----------------------------------------------------------------------------
(* The handlers *)

\* handleSubscriptionCreated: the user lookup and the building of the row
handleSubscriptionCreated_findUser(p) ==
    /\ proc[p].pc = "created.findUser"
    /\ \/ LET u == FindUser(proc[p].ev.customer)
          IN  IF u # NoUser
              THEN Set(p, [proc[p] EXCEPT !.user = u,
                                          !.sub = NewSubscription(u, proc[p].ev),
                                          !.pc = "created.save"])
              ELSE Set(p, AfterSwitch(proc[p]))
       \/ \E k \in HandlerErrors : Set(p, Thrown(proc[p], k))
    /\ Handled(p)
    /\ UNCHANGED <<config, isEnabled, link, calc, env, paymentMethods, customers, users, webhookEvents, subscriptions,
                   transactions, deliveries>>

\* handleSubscriptionCreated: subscriptionRepository.save of the new row
handleSubscriptionCreated_save(p) ==
    /\ proc[p].pc = "created.save"
    /\ \/ /\ ~SubscriptionIdTaken(subscriptions, proc[p].sub.stripeSubscriptionId)
          /\ subscriptions' = Append(subscriptions, proc[p].sub)
          /\ Set(p, AfterSwitch(proc[p]))
       \/ /\ SubscriptionIdTaken(subscriptions, proc[p].sub.stripeSubscriptionId)
          /\ Set(p, Thrown(proc[p], "generic"))
          /\ UNCHANGED subscriptions
       \/ /\ \E k \in HandlerErrors : Set(p, Thrown(proc[p], k))
          /\ UNCHANGED subscriptions
    /\ Handled(p)
    /\ UNCHANGED <<config, isEnabled, link, calc, env, paymentMethods, customers, users, webhookEvents, transactions, deliveries>>

\* handleSubscriptionUpdated: findOne and the changes made to the entity
handleSubscriptionUpdated_findOne_Upsert(p) ==
    /\ proc[p].pc = "updated.findOne"
    /\ LET i == FindSubscription(proc[p].ev.subscription)
       IN  IF i # 0
           THEN /\ Set(p, [proc[p] EXCEPT
                              !.subIdx = i,
                              !.read = subscriptions[i],
                              !.sub = UpdatedSubscription(subscriptions[i], proc[p].ev),
                              !.pc = "updated.save"])
                /\ UNCHANGED subscriptions
           ELSE /\ subscriptions' = Append(subscriptions,
                                           NewSubscription("user_1", proc[p].ev))
                /\ Set(p, AfterSwitch(proc[p]))
    /\ Handled(p)
    /\ UNCHANGED <<config, isEnabled, link, calc, env, paymentMethods, customers, users, webhookEvents, transactions, deliveries>>
handleSubscriptionUpdated_findOne(p) ==
    /\ proc[p].pc = "updated.findOne"
    /\ \/ LET i == FindSubscription(proc[p].ev.subscription)
          IN  IF i # 0
              THEN Set(p, [proc[p] EXCEPT
                              !.subIdx = i,
                              !.read = subscriptions[i],
                              !.sub = UpdatedSubscription(subscriptions[i], proc[p].ev),
                              !.pc = "updated.save"])
              ELSE Set(p, AfterSwitch(proc[p]))
       \/ \E k \in HandlerErrors : Set(p, Thrown(proc[p], k))
    /\ Handled(p)
    /\ UNCHANGED <<config, isEnabled, link, calc, env, paymentMethods, customers, users, webhookEvents, subscriptions,
                   transactions, deliveries>>

\* handleSubscriptionUpdated: subscriptionRepository.save of the entity
handleSubscriptionUpdated_save(p) ==
    /\ proc[p].pc = "updated.save"
    /\ \/ /\ subscriptions' = [subscriptions EXCEPT ![proc[p].subIdx] = proc[p].sub]
          /\ Set(p, AfterSwitch(proc[p]))
       \/ /\ \E k \in HandlerErrors : Set(p, Thrown(proc[p], k))
          /\ UNCHANGED subscriptions
    /\ Handled(p)
    /\ UNCHANGED <<config, isEnabled, link, calc, env, paymentMethods, customers, users, webhookEvents, transactions, deliveries>>

\* handleSubscriptionDeleted: findOne and the changes made to the entity
handleSubscriptionDeleted_findOne(p) ==
    /\ proc[p].pc = "deleted.findOne"
    /\ \/ LET i == FindSubscription(proc[p].ev.subscription)
          IN  IF i # 0
              THEN Set(p, [proc[p] EXCEPT
                              !.subIdx = i,
                              !.read = subscriptions[i],
                              !.sub = DeletedSubscription(subscriptions[i]),
                              !.pc = "deleted.save"])
              ELSE Set(p, AfterSwitch(proc[p]))
       \/ \E k \in HandlerErrors : Set(p, Thrown(proc[p], k))
    /\ Handled(p)
    /\ UNCHANGED <<config, isEnabled, link, calc, env, paymentMethods, customers, users, webhookEvents, subscriptions,
                   transactions, deliveries>>

\* handleSubscriptionDeleted: subscriptionRepository.save of the entity
handleSubscriptionDeleted_save(p) ==
    /\ proc[p].pc = "deleted.save"
    /\ \/ /\ subscriptions' = [subscriptions EXCEPT ![proc[p].subIdx] = proc[p].sub]
          /\ Set(p, AfterSwitch(proc[p]))
       \/ /\ \E k \in HandlerErrors : Set(p, Thrown(proc[p], k))
          /\ UNCHANGED subscriptions
    /\ Handled(p)
    /\ UNCHANGED <<config, isEnabled, link, calc, env, paymentMethods, customers, users, webhookEvents, transactions, deliveries>>

\* handleInvoicePaymentFailed after the subscription part: the payment
\* intent is retrieved when the invoice names one
AfterSubscriptionPart(r) ==
    IF r.ev.payment_intent # "none"
    THEN [r EXCEPT !.pc = "invoiceFailed.retrieve"]
    ELSE [r EXCEPT !.failureReason = "Unknown failure reason",
                   !.pc = "invoiceFailed.record"]

\* handleInvoicePaymentFailed: the user lookup
handleInvoicePaymentFailed_findUser(p) ==
    /\ proc[p].pc = "invoiceFailed.findUser"
    /\ \/ LET u == FindUser(proc[p].ev.customer)
          IN  IF u # NoUser
              THEN IF proc[p].ev.subscription # "none"
                   THEN Set(p, [proc[p] EXCEPT !.user = u,
                                               !.pc = "invoiceFailed.findOne"])
                   ELSE Set(p, AfterSubscriptionPart([proc[p] EXCEPT !.user = u]))
              ELSE Set(p, AfterSwitch(proc[p]))
       \/ \E k \in HandlerErrors : Set(p, Thrown(proc[p], k))
    /\ Handled(p)
    /\ UNCHANGED <<config, isEnabled, link, calc, env, paymentMethods, customers, users, webhookEvents, subscriptions,
                   transactions, deliveries>>

\* handleInvoicePaymentFailed: findOne of the subscription and the changes
\* made to the entity
handleInvoicePaymentFailed_findOne(p) ==
    /\ proc[p].pc = "invoiceFailed.findOne"
    /\ \/ LET i == FindSubscription(proc[p].ev.subscription)
          IN  IF i # 0
              THEN Set(p, [proc[p] EXCEPT
                              !.subIdx = i,
                              !.read = subscriptions[i],
                              !.sub = FailedPaymentSubscription(subscriptions[i]),
                              !.pc = "invoiceFailed.save"])
              ELSE Set(p, AfterSubscriptionPart(proc[p]))
       \/ \E k \in HandlerErrors : Set(p, Thrown(proc[p], k))
    /\ Handled(p)
    /\ UNCHANGED <<config, isEnabled, link, calc, env, paymentMethods, customers, users, webhookEvents, subscriptions,
                   transactions, deliveries>>

\* handleInvoicePaymentFailed: subscriptionRepository.save of the entity
handleInvoicePaymentFailed_save(p) ==
    /\ proc[p].pc = "invoiceFailed.save"
    /\ \/ /\ subscriptions' = [subscriptions EXCEPT ![proc[p].subIdx] = proc[p].sub]
          /\ Set(p, AfterSubscriptionPart(proc[p]))
       \/ /\ \E k \in HandlerErrors : Set(p, Thrown(proc[p], k))
          /\ UNCHANGED subscriptions
    /\ Handled(p)
    /\ UNCHANGED <<config, isEnabled, link, calc, env, paymentMethods, customers, users, webhookEvents, transactions, deliveries>>

\* handleInvoicePaymentFailed: stripe.paymentIntents.retrieve inside its own
\* try: an error of the lookup is logged and dropped
handleInvoicePaymentFailed_retrieve(p) ==
    /\ proc[p].pc = "invoiceFailed.retrieve"
    /\ \E outcome \in {"error", "no last_payment_error", "last_payment_error"} :
          Set(p, [proc[p] EXCEPT
                    !.failureReason = IF outcome = "last_payment_error"
                                      THEN "last_payment_error.message"
                                      ELSE "Unknown failure reason",
                    !.lookupFailed = (outcome = "error"),
                    !.pc = "invoiceFailed.record"])
    /\ UNCHANGED <<config, isEnabled, link, calc, env, paymentMethods, customers, users, webhookEvents, subscriptions,
                   transactions, handledOk, deliveries>>

\* handleInvoicePaymentFailed: recordTransaction of the failed payment
handleInvoicePaymentFailed_record(p) ==
    /\ proc[p].pc = "invoiceFailed.record"
    /\ \/ /\ transactions' = Append(transactions,
                 recordTransaction(proc[p].user, proc[p].ev.payment_intent,
                                   "SUBSCRIPTION", ToMajor(proc[p].ev.amount_due),
                                   proc[p].ev.currency, "FAILED", Description(proc[p].ev), Metadata(proc[p].ev),
                                   proc[p].failureReason, NoMoney, NoMoney))
          /\ Set(p, AfterSwitch([proc[p] EXCEPT !.recorded = @ + 1]))
       \/ /\ \E k \in HandlerErrors : Set(p, Thrown(proc[p], k))
          /\ UNCHANGED transactions
    /\ Handled(p)
    /\ UNCHANGED <<config, isEnabled, link, calc, env, paymentMethods, customers, users, webhookEvents, subscriptions, deliveries>>

\* the first await of a payment handler: the user lookup by customer id;
\* found is the position of a delivery whose user exists
FindUserStep(p, label, found) ==
    /\ proc[p].pc = label
    /\ \/ LET u == FindUser(proc[p].ev.customer)
          IN  IF u # NoUser
              THEN Set(p, [proc[p] EXCEPT !.user = u, !.pc = found])
              ELSE Set(p, AfterSwitch(proc[p]))
       \/ \E k \in HandlerErrors : Set(p, Thrown(proc[p], k))
    /\ Handled(p)
    /\ UNCHANGED <<config, isEnabled, link, calc, env, paymentMethods, customers, users, webhookEvents, subscriptions,
                   transactions, deliveries>>

\* the awaited recordTransaction of a payment handler, then its return
RecordStep(p, label, row) ==
    /\ proc[p].pc = label
    /\ \/ /\ transactions' = Append(transactions, row)
          /\ Set(p, AfterSwitch([proc[p] EXCEPT !.recorded = @ + 1]))
       \/ /\ \E k \in HandlerErrors : Set(p, Thrown(proc[p], k))
          /\ UNCHANGED transactions
    /\ Handled(p)
    /\ UNCHANGED <<config, isEnabled, link, calc, env, paymentMethods, customers, users, webhookEvents, subscriptions, deliveries>>

\* the settlement objects stripe.paymentIntents.retrieve can return for a
\* payment of amount minor units: fee and net in minor units
BalanceTransactions(amount) ==
    {[present |-> TRUE, fee |-> 175, net |-> amount - 175]}

\* stripe.paymentIntents.retrieve with latest_charge expanded, inside its own
\* try: fee and net come from the balance transaction when there is one, and
\* stay at 0 and the gross amount otherwise (also when the lookup fails)
RetrieveFeeStep(p, label, next, amount) ==
    /\ proc[p].pc = label
    /\ \/ Set(p, [proc[p] EXCEPT !.lookupFailed = TRUE, !.pc = next])
       \/ Set(p, [proc[p] EXCEPT !.pc = next])
       \/ \E bt \in BalanceTransactions(amount) :
             Set(p, [proc[p] EXCEPT !.balanceTransaction = bt,
                                    !.stripeFee = ToMajor(bt.fee),
                                    !.netAmount = ToMajor(bt.net),
                                    !.pc = next])
    /\ UNCHANGED <<config, isEnabled, link, calc, env, paymentMethods, customers, users, webhookEvents, subscriptions,
                   transactions, handledOk, deliveries>>

\* x || y on strings, "none" standing for null
OrElse(x, y) == IF x # "none" THEN x ELSE y

\* handleCheckoutSessionCompleted: the user lookup
handleCheckoutSessionCompleted_findUser(p) ==
    FindUserStep(p, "checkout.findUser", "checkout.record")

\* handleCheckoutSessionCompleted: recordTransaction with session.amount_total
handleCheckoutSessionCompleted_record(p) ==
    RecordStep(p, "checkout.record",
        recordTransaction(proc[p].user,
            OrElse(proc[p].ev.payment_intent, proc[p].ev.subscription),
            IF proc[p].ev.mode = "subscription" THEN "SUBSCRIPTION" ELSE "PAYMENT",
            Money(proc[p].ev.amount_total, 0),
            OrElse(proc[p].ev.currency, "usd"), "COMPLETED", Description(proc[p].ev), Metadata(proc[p].ev),
            "undefined", NoMoney, NoMoney))

\* handleInvoicePaymentSucceeded: the user lookup and the default fee and net
handleInvoicePaymentSucceeded_findUser(p) ==
    /\ proc[p].pc = "invoiceSucceeded.findUser"
    /\ \/ LET u == FindUser(proc[p].ev.customer)
              r == [proc[p] EXCEPT !.user = u,
                                   !.stripeFee = Money(0, 0),
                                   !.netAmount = ToMajor(proc[p].ev.amount_paid)]
          IN  IF u # NoUser
              THEN IF proc[p].ev.payment_intent # "none"
                   THEN Set(p, [r EXCEPT !.pc = "invoiceSucceeded.retrieve"])
                   ELSE Set(p, [r EXCEPT !.pc = "invoiceSucceeded.record"])
              ELSE Set(p, AfterSwitch(proc[p]))
       \/ \E k \in HandlerErrors : Set(p, Thrown(proc[p], k))
    /\ Handled(p)
    /\ UNCHANGED <<config, isEnabled, link, calc, env, paymentMethods, customers, users, webhookEvents, subscriptions,
                   transactions, deliveries>>

\* handleInvoicePaymentSucceeded: the fee lookup
handleInvoicePaymentSucceeded_retrieve(p) ==
    RetrieveFeeStep(p, "invoiceSucceeded.retrieve", "invoiceSucceeded.record",
                    proc[p].ev.amount_paid)

\* handleInvoicePaymentSucceeded: recordTransaction
handleInvoicePaymentSucceeded_record(p) ==
    RecordStep(p, "invoiceSucceeded.record",
        recordTransaction(proc[p].user,
            OrElse(proc[p].ev.payment_intent, "invoice.id"), "SUBSCRIPTION",
            ToMajor(proc[p].ev.amount_paid),
            OrElse(proc[p].ev.currency, "usd"), "COMPLETED", Description(proc[p].ev), Metadata(proc[p].ev),
            "undefined", proc[p].stripeFee, proc[p].netAmount))

\* handlePaymentIntentSucceeded: the user lookup; an intent that pays an
\* invoice is skipped, otherwise fee and net get their defaults
handlePaymentIntentSucceeded_findUser(p) ==
    /\ proc[p].pc = "piSucceeded.findUser"
    /\ \/ LET u == FindUser(proc[p].ev.customer)
          IN  IF u # NoUser /\ proc[p].ev.invoice = "none"
              THEN Set(p, [proc[p] EXCEPT
                              !.user = u,
                              !.stripeFee = Money(0, 0),
                              !.netAmount = ToMajor(proc[p].ev.amount),
                              !.pc = "piSucceeded.retrieve"])
              ELSE Set(p, AfterSwitch(proc[p]))
       \/ \E k \in HandlerErrors : Set(p, Thrown(proc[p], k))
    /\ Handled(p)
    /\ UNCHANGED <<config, isEnabled, link, calc, env, paymentMethods, customers, users, webhookEvents, subscriptions,
                   transactions, deliveries>>

\* handlePaymentIntentSucceeded: the fee lookup
handlePaymentIntentSucceeded_retrieve(p) ==
    RetrieveFeeStep(p, "piSucceeded.retrieve", "piSucceeded.record",
                    proc[p].ev.amount)

\* handlePaymentIntentSucceeded: recordTransaction
handlePaymentIntentSucceeded_record(p) ==
    RecordStep(p, "piSucceeded.record",
        recordTransaction(proc[p].user, proc[p].ev.payment_intent, "PAYMENT",
            ToMajor(proc[p].ev.amount), proc[p].ev.currency, "COMPLETED", Description(proc[p].ev), Metadata(proc[p].ev),
            "undefined", proc[p].stripeFee, proc[p].netAmount))

\* handlePaymentIntentFailed: the user lookup
handlePaymentIntentFailed_findUser(p) ==
    FindUserStep(p, "piFailed.findUser", "piFailed.record")

\* handlePaymentIntentFailed: recordTransaction
handlePaymentIntentFailed_record(p) ==
    RecordStep(p, "piFailed.record",
        recordTransaction(proc[p].user, proc[p].ev.payment_intent, "PAYMENT",
            ToMajor(proc[p].ev.amount), proc[p].ev.currency, "FAILED", Description(proc[p].ev), Metadata(proc[p].ev),
            "undefined", NoMoney, NoMoney))

\* handlePaymentIntentCanceled: the user lookup
handlePaymentIntentCanceled_findUser(p) ==
    FindUserStep(p, "piCanceled.findUser", "piCanceled.record")

\* handlePaymentIntentCanceled: recordTransaction
handlePaymentIntentCanceled_record(p) ==
    RecordStep(p, "piCanceled.record",
        recordTransaction(proc[p].user, proc[p].ev.payment_intent, "PAYMENT",
            ToMajor(proc[p].ev.amount), proc[p].ev.currency, "CANCELLED", Description(proc[p].ev), Metadata(proc[p].ev),
            "undefined", NoMoney, NoMoney))

\* handleChargeRefunded: the user lookup
handleChargeRefunded_findUser(p) ==
    FindUserStep(p, "refunded.findUser", "refunded.record")

\* refund ? refund.amount / 100 : charge.amount_refunded / 100
RefundAmount(e) ==
    IF e.refund_amount.kind = "number"
    THEN ToMajor(e.refund_amount.v)
    ELSE ToMajor(e.amount_refunded)

\* handleChargeRefunded: recordTransaction
handleChargeRefunded_record(p) ==
    RecordStep(p, "refunded.record",
        recordTransaction(proc[p].user,
            OrElse(proc[p].ev.payment_intent, "charge.id"), "REFUND",
            RefundAmount(proc[p].ev), proc[p].ev.currency, "REFUNDED", Description(proc[p].ev), Metadata(proc[p].ev),
            "undefined", NoMoney, NoMoney))

\* handleInvoiceUpcoming: the user lookup; the handler only logs
handleInvoiceUpcoming_findUser(p) ==
    /\ proc[p].pc = "upcoming.findUser"
    /\ \/ Set(p, AfterSwitch(proc[p]))
       \/ \E k \in HandlerErrors : Set(p, Thrown(proc[p], k))
    /\ Handled(p)
    /\ UNCHANGED <<config, isEnabled, link, calc, env, paymentMethods, customers, users, webhookEvents,
                   subscriptions, transactions, deliveries>>

\* handlePaymentMethodAttached: the user lookup; if (user && paymentMethod.card)
handlePaymentMethodAttached_findUser(p) ==
    /\ proc[p].pc = "attached.findUser"
    /\ \/ LET u == FindUser(proc[p].ev.customer)
          IN  IF u # NoUser /\ proc[p].ev.card
              THEN Set(p, [proc[p] EXCEPT !.user = u, !.pc = "attached.save"])
              ELSE Set(p, AfterSwitch(proc[p]))
       \/ \E k \in HandlerErrors : Set(p, Thrown(proc[p], k))
    /\ Handled(p)
    /\ UNCHANGED <<config, isEnabled, link, calc, env, paymentMethods, customers, users, webhookEvents,
                   subscriptions, transactions, deliveries>>

\* the row savePaymentMethod saves
savePaymentMethod(userId, stripePaymentMethodId, type) ==
    [userId |-> userId, stripePaymentMethodId |-> stripePaymentMethodId,
     type |-> type, isDefault |-> FALSE]

\* handlePaymentMethodAttached: savePaymentMethod
handlePaymentMethodAttached_save(p) ==
    /\ proc[p].pc = "attached.save"
    /\ \/ /\ paymentMethods' = Append(paymentMethods,
                 savePaymentMethod(proc[p].user, proc[p].ev.payment_method, "card"))
          /\ Set(p, AfterSwitch(proc[p]))
       \/ /\ \E k \in HandlerErrors : Set(p, Thrown(proc[p], k))
          /\ UNCHANGED paymentMethods
    /\ Handled(p)
    /\ UNCHANGED <<config, isEnabled, link, calc, env, customers, users, webhookEvents, subscriptions,
                   transactions, deliveries>>

\* handleSubscriptionTrialWillEnd: the user lookup
handleSubscriptionTrialWillEnd_findUser(p) ==
    FindUserStep(p, "trialWillEnd.findUser", "trialWillEnd.findOne")

\* handleSubscriptionTrialWillEnd: findOne of the subscription; the handler
\* only logs
handleSubscriptionTrialWillEnd_findOne(p) ==
    /\ proc[p].pc = "trialWillEnd.findOne"
    /\ \/ Set(p, AfterSwitch(proc[p]))
       \/ \E k \in HandlerErrors : Set(p, Thrown(proc[p], k))
    /\ Handled(p)
    /\ UNCHANGED <<config, isEnabled, link, calc, env, paymentMethods, customers, users, webhookEvents,
                   subscriptions, transactions, deliveries>>

----------------------------------------------------------------------------
(* Specifications *)

Init ==
    /\ env \in {"true", Unset}
    /\ users = InitUsers
    /\ webhookEvents = <<>>
    /\ subscriptions = <<>>
    /\ transactions = <<>>
    /\ paymentMethods = <<>>
    /\ customers = <<>>
    /\ config = EnabledConfig
    /\ isEnabled = TRUE
    /\ link = [c \in Callers |-> IdleCall]
    /\ proc = [p \in Procs |-> IdleProc]
    /\ handledOk = {}
    /\ deliveries = 0
    /\ calc = NoCalc

Step(p) ==
    \/ logWebhookEvent(p)
    \/ markPending(p)
    \/ markCompleted(p)
    \/ catchIncrement(p)
    \/ catchUpdate(p)
    \/ handleSubscriptionCreated_findUser(p)
    \/ handleSubscriptionCreated_save(p)
    \/ handleSubscriptionUpdated_findOne(p)
    \/ handleSubscriptionUpdated_save(p)
    \/ handleSubscriptionDeleted_findOne(p)
    \/ handleSubscriptionDeleted_save(p)
    \/ handleInvoicePaymentFailed_findUser(p)
    \/ handleInvoicePaymentFailed_findOne(p)
    \/ handleInvoicePaymentFailed_save(p)
    \/ handleInvoicePaymentFailed_retrieve(p)
    \/ handleInvoicePaymentFailed_record(p)

Next ==
    \/ \E p \in Procs, e \in DispatchEvents : Deliver(p, e, MaxDeliveries)
    \/ \E p \in Procs : Step(p)

Spec == Init /\ [][Next]_vars

\* The subscription handlers on their own: logging is off, so every delivery
\* reaches its handler, and the events carry every status the processor can
\* report.  The table starts empty or with the row a subscription-created
\* event of user_1 has left.
InitSub ==
    /\ env = Unset
    /\ users = InitUsers
    /\ webhookEvents = <<>>
    /\ subscriptions \in
          {<<>>} \cup {<<NewSubscription("user_1", SubscriptionCreated("cus_1", st))>> :
                          st \in StripeStatuses}
    /\ transactions = <<>>
    /\ paymentMethods = <<>>
    /\ customers = <<>>
    /\ config = EnabledConfig
    /\ isEnabled = TRUE
    /\ link = [c \in Callers |-> IdleCall]
    /\ proc = [p \in Procs |-> IdleProc]
    /\ handledOk = {}
    /\ deliveries = 0
    /\ calc = NoCalc

StepSub(p) ==
    \/ logWebhookEvent(p)
    \/ handleSubscriptionCreated_findUser(p)
    \/ handleSubscriptionCreated_save(p)
    \/ handleSubscriptionUpdated_findOne(p)
    \/ handleSubscriptionUpdated_save(p)
    \/ handleSubscriptionDeleted_findOne(p)
    \/ handleSubscriptionDeleted_save(p)
    \/ handleInvoicePaymentFailed_findUser(p)
    \/ handleInvoicePaymentFailed_findOne(p)
    \/ handleInvoicePaymentFailed_save(p)
    \/ handleInvoicePaymentFailed_retrieve(p)
    \/ handleInvoicePaymentFailed_record(p)

NextSub ==
    \/ \E p \in Procs, e \in SubscriptionEvents : Deliver(p, e, MaxSubDeliveries)
    \/ \E p \in Procs : StepSub(p)

SpecSub == InitSub /\ [][NextSub]_vars

\* The subscription handlers on creations with and without trial dates:
\* logging is off and the subscription table starts empty.
InitTrial ==
    /\ env = Unset
    /\ users = InitUsers
    /\ webhookEvents = <<>>
    /\ subscriptions = <<>>
    /\ transactions = <<>>
    /\ paymentMethods = <<>>
    /\ customers = <<>>
    /\ config = EnabledConfig
    /\ isEnabled = TRUE
    /\ link = [c \in Callers |-> IdleCall]
    /\ proc = [p \in Procs |-> IdleProc]
    /\ handledOk = {}
    /\ deliveries = 0
    /\ calc = NoCalc

NextTrial ==
    \/ \E p \in Procs, e \in TrialEvents : Deliver(p, e, MaxSubDeliveries)
    \/ \E p \in Procs : StepSub(p)

SpecTrial == InitTrial /\ [][NextTrial]_vars

\* The handlers that record a transaction: logging is off, user_1 has the
\* subscription row a subscription-created event has left.
InitTx ==
    /\ env = Unset
    /\ users = InitUsers
    /\ webhookEvents = <<>>
    /\ subscriptions = <<NewSubscription("user_1", SubscriptionCreated("cus_1", "active"))>>
    /\ transactions = <<>>
    /\ paymentMethods = <<>>
    /\ customers = <<>>
    /\ config = EnabledConfig
    /\ isEnabled = TRUE
    /\ link = [c \in Callers |-> IdleCall]
    /\ proc = [p \in Procs |-> IdleProc]
    /\ handledOk = {}
    /\ deliveries = 0
    /\ calc = NoCalc

StepTx(p) ==
    \/ logWebhookEvent(p)
    \/ handleCheckoutSessionCompleted_findUser(p)
    \/ handleCheckoutSessionCompleted_record(p)
    \/ handleInvoicePaymentSucceeded_findUser(p)
    \/ handleInvoicePaymentSucceeded_retrieve(p)
    \/ handleInvoicePaymentSucceeded_record(p)
    \/ handleInvoicePaymentFailed_findUser(p)
    \/ handleInvoicePaymentFailed_findOne(p)
    \/ handleInvoicePaymentFailed_save(p)
    \/ handleInvoicePaymentFailed_retrieve(p)
    \/ handleInvoicePaymentFailed_record(p)
    \/ handlePaymentIntentSucceeded_findUser(p)
    \/ handlePaymentIntentSucceeded_retrieve(p)
    \/ handlePaymentIntentSucceeded_record(p)
    \/ handlePaymentIntentFailed_findUser(p)
    \/ handlePaymentIntentFailed_record(p)
    \/ handlePaymentIntentCanceled_findUser(p)
    \/ handlePaymentIntentCanceled_record(p)
    \/ handleChargeRefunded_findUser(p)
    \/ handleChargeRefunded_record(p)

NextTx ==
    \/ \E p \in Procs, e \in TransactionEvents : Deliver(p, e, MaxTxDeliveries)
    \/ \E p \in Procs : StepTx(p)

SpecTx == InitTx /\ [][NextTx]_vars

\* All handlers behind the dispatcher, with every value of the logging
\* toggle.  The subscription table is empty or holds the row of sub_1.
ToggleValues == {Unset, "true", "false", "TRUE"}

InitAll ==
    /\ env \in ToggleValues
    /\ users = InitUsers
    /\ webhookEvents = <<>>
    /\ subscriptions \in
          {<<>>, <<NewSubscription("user_1", SubscriptionCreated("cus_1", "active"))>>}
    /\ transactions = <<>>
    /\ paymentMethods = <<>>
    /\ customers = <<>>
    /\ config = EnabledConfig
    /\ isEnabled = TRUE
    /\ link = [c \in Callers |-> IdleCall]
    /\ proc = [p \in Procs |-> IdleProc]
    /\ handledOk = {}
    /\ deliveries = 0
    /\ calc = NoCalc

StepAll(p) ==
    \/ Step(p)
    \/ handleCheckoutSessionCompleted_findUser(p)
    \/ handleCheckoutSessionCompleted_record(p)
    \/ handleInvoicePaymentSucceeded_findUser(p)
    \/ handleInvoicePaymentSucceeded_retrieve(p)
    \/ handleInvoicePaymentSucceeded_record(p)
    \/ handleInvoiceUpcoming_findUser(p)
    \/ handlePaymentMethodAttached_findUser(p)
    \/ handlePaymentMethodAttached_save(p)
    \/ handleSubscriptionTrialWillEnd_findUser(p)
    \/ handleSubscriptionTrialWillEnd_findOne(p)
    \/ handlePaymentIntentSucceeded_findUser(p)
    \/ handlePaymentIntentSucceeded_retrieve(p)
    \/ handlePaymentIntentSucceeded_record(p)
    \/ handlePaymentIntentFailed_findUser(p)
    \/ handlePaymentIntentFailed_record(p)
    \/ handlePaymentIntentCanceled_findUser(p)
    \/ handlePaymentIntentCanceled_record(p)
    \/ handleChargeRefunded_findUser(p)
    \/ handleChargeRefunded_record(p)

NextAll ==
    \/ \E p \in Procs, e \in AllEvents : Deliver(p, e, MaxAllDeliveries)
    \/ \E p \in Procs : StepAll(p)

SpecAll == InitAll /\ [][NextAll]_vars

\* The pure functions on their own: the arguments are drawn at the start,
\* one step applies a function to them.
InitPure ==
    /\ env = Unset
    /\ users = InitUsers
    /\ webhookEvents = <<>>
    /\ subscriptions = <<>>
    /\ transactions = <<>>
    /\ paymentMethods = <<>>
    /\ customers = <<>>
    /\ config = EnabledConfig
    /\ isEnabled = TRUE
    /\ link = [c \in Callers |-> IdleCall]
    /\ proc = [p \in Procs |-> IdleProc]
    /\ handledOk = {}
    /\ deliveries = 0
    /\ calc \in {[NoCalc EXCEPT !.op = "arguments", !.a = a, !.b = b, !.c = c] :
                    a \in Timestamps, b \in Timestamps, c \in Timestamps}

\* convertStripeTimestamp(a)
ApplyConvertStripeTimestamp ==
    /\ calc.op = "arguments"
    /\ calc' = [calc EXCEPT !.op = "convertStripeTimestamp",
                            !.out = convertStripeTimestamp(calc.a)]
    /\ UNCHANGED <<config, isEnabled, link, env, paymentMethods, customers, users, webhookEvents, subscriptions,
                   transactions, proc, handledOk, deliveries>>

\* the period start handleSubscriptionUpdated resolves from the candidates
ApplyUpdatedPeriodStart ==
    /\ calc.op = "arguments"
    /\ calc' = [calc EXCEPT !.op = "updated.periodStart",
                            !.out = PeriodStart(CandidatesEvent(calc.a, calc.b, calc.c))]
    /\ UNCHANGED <<config, isEnabled, link, env, paymentMethods, customers, users, webhookEvents, subscriptions,
                   transactions, proc, handledOk, deliveries>>

\* currentPeriodStart of the row handleSubscriptionCreated builds
ApplyCreatedPeriodStart ==
    /\ calc.op = "arguments"
    /\ calc' = [calc EXCEPT
                  !.op = "created.currentPeriodStart",
                  !.out = NewSubscription("user_1",
                              CandidatesEvent(calc.a, calc.b, calc.c)).currentPeriodStart]
    /\ UNCHANGED <<config, isEnabled, link, env, paymentMethods, customers, users, webhookEvents, subscriptions,
                   transactions, proc, handledOk, deliveries>>

\* mapStripeSubscriptionStatus(status)
ApplyMapStripeSubscriptionStatus ==
    /\ calc.op = "arguments"
    /\ \E status \in StatusStrings :
          calc' = [calc EXCEPT !.op = "mapStripeSubscriptionStatus",
                               !.status = status,
                               !.mapped = mapStripeSubscriptionStatus(status)]
    /\ UNCHANGED <<config, isEnabled, link, env, paymentMethods, customers, users, webhookEvents,
                   subscriptions, transactions, proc, handledOk, deliveries>>

NextPure ==
    \/ ApplyMapStripeSubscriptionStatus
    \/ ApplyConvertStripeTimestamp
    \/ ApplyUpdatedPeriodStart
    \/ ApplyCreatedPeriodStart

SpecPure == InitPure /\ [][NextPure]_vars

----------------------------------------------------------------------------
(* The customer linker: createCustomerForUser, createCustomerForUserData *)

\* the ids the processor gives to the customers it creates, in order
CustomerIds == <<"cus_1", "cus_2", "cus_3", "cus_4", "cus_5", "cus_6">>

\* what the webhook side of the service holds: untouched by the linker
WebhookVars ==
    <<env, webhookEvents, subscriptions, transactions, paymentMethods, proc,
      handledOk, deliveries, calc>>

\* if (user.stripeCustomerId), if (existingUser?.stripeCustomerId)
HasCustomer_Never(row) == FALSE
HasCustomer(row) == row.stripeCustomerId # "none"

\* const user = { id: userIdNumber, email: 'placeholder@example.com' } as any
PlaceholderUser == [stripeCustomerId |-> "none"]

\* number of linker calls started
LinkCalls == link["c1"].n + link["c2"].n

LinkSet(c, r) == link' = [link EXCEPT ![c] = r]

\* the call of caller c starts: a new frame, the result of the previous one kept
StartCall(c, fn, controller, user) ==
    [IdleCall EXCEPT !.fn = fn, !.controller = controller, !.user = user,
                     !.prev = link[c].result, !.n = link[c].n + 1]

\* throw error
LinkThrown(r, kind) == [r EXCEPT !.pc = "done", !.err = kind]

\* return the customer id
LinkReturned(r, id) == [r EXCEPT !.pc = "done", !.result = id]

\* the synchronous head of createCustomerForUser
createCustomerForUser_head(r) ==
    IF ~isEnabled THEN LinkThrown(r, "generic")
    ELSE IF HasCustomer(r.user) THEN LinkReturned(r, r.user.stripeCustomerId)
    ELSE [r EXCEPT !.pc = "forUser.create"]

\* createCustomerForUser called with a user entity the caller has just loaded
createCustomerForUser(c) ==
    /\ link[c].pc \in {"idle", "done"}
    /\ LinkCalls < MaxLinkCalls
    /\ LinkSet(c, createCustomerForUser_head(
                      StartCall(c, "createCustomerForUser", FALSE, users["user_1"])))
    /\ UNCHANGED <<WebhookVars, config, isEnabled, users, customers>>

\* POST of the controller: the user object is made up from the path parameter
StripeController_createCustomerForUser(c) ==
    /\ link[c].pc \in {"idle", "done"}
    /\ LinkCalls < MaxLinkCalls
    /\ LET r == StartCall(c, "createCustomerForUser", TRUE, PlaceholderUser)
       IN  IF ~isEnabled
           THEN LinkSet(c, LinkThrown(r, "unavailable"))
           ELSE LinkSet(c, createCustomerForUser_head(r))
    /\ UNCHANGED <<WebhookVars, config, isEnabled, users, customers>>

\* await this.stripe.customers.create(...)
CustomersCreateStep(c, label, next) ==
    /\ link[c].pc = label
    /\ \/ LET id == CustomerIds[Len(customers) + 1]
          IN  /\ customers' = Append(customers,
                                     [id |-> id, userId |-> "user_1",
                                      fn |-> link[c].fn,
                                      controller |-> link[c].controller])
              /\ LinkSet(c, [link[c] EXCEPT !.pc = next, !.customer = id])
       \/ /\ LinkSet(c, LinkThrown(link[c], "generic"))
          /\ UNCHANGED customers
    /\ UNCHANGED <<WebhookVars, config, isEnabled, users>>

\* await this.userRepository.update(user.id, { stripeCustomerId: customer.id })
UserUpdateStep(c, label) ==
    /\ link[c].pc = label
    /\ \/ /\ users' = [users EXCEPT !["user_1"].stripeCustomerId = link[c].customer]
          /\ LinkSet(c, LinkReturned(link[c], link[c].customer))
       \/ /\ LinkSet(c, LinkThrown(link[c], "generic"))
          /\ UNCHANGED users
    /\ UNCHANGED <<WebhookVars, config, isEnabled, customers>>

createCustomerForUser_create(c) ==
    CustomersCreateStep(c, "forUser.create", "forUser.update")

createCustomerForUser_update(c) ==
    UserUpdateStep(c, "forUser.update")

\* createCustomerForUserData is called: the configuration check
createCustomerForUserData(c) ==
    /\ link[c].pc \in {"idle", "done"}
    /\ LinkCalls < MaxLinkCalls
    /\ LET r == StartCall(c, "createCustomerForUserData", FALSE, PlaceholderUser)
       IN  IF ~isEnabled
           THEN LinkSet(c, LinkThrown(r, "generic"))
           ELSE LinkSet(c, [r EXCEPT !.pc = "forUserData.findOne"])
    /\ UNCHANGED <<WebhookVars, config, isEnabled, users, customers>>

\* existingUser = await this.userRepository.findOne({ where: { id } })
createCustomerForUserData_findOne(c) ==
    /\ link[c].pc = "forUserData.findOne"
    /\ \/ LET r == [link[c] EXCEPT !.user = users["user_1"]]
          IN  IF HasCustomer(r.user)
              THEN LinkSet(c, LinkReturned(r, r.user.stripeCustomerId))
              ELSE LinkSet(c, [r EXCEPT !.pc = "forUserData.create"])
       \/ LinkSet(c, LinkThrown(link[c], "generic"))
    /\ UNCHANGED <<WebhookVars, config, isEnabled, users, customers>>

createCustomerForUserData_create(c) ==
    CustomersCreateStep(c, "forUserData.create", "forUserData.update")

createCustomerForUserData_update(c) ==
    UserUpdateStep(c, "forUserData.update")

\* the service is configured or not; the user has a customer of the
\* processor already, or none
InitLink ==
    /\ env = Unset
    /\ config \in {EnabledConfig, [EnabledConfig EXCEPT !.PAYMENTS_MODE = Unset]}
    /\ isEnabled = constructor_isEnabled(config)
    /\ \E id \in {"none", "cus_1"} :
          /\ users = [u \in {"user_1"} |-> [stripeCustomerId |-> id]]
          /\ customers = IF id = "none" THEN <<>>
                         ELSE <<[id |-> id, userId |-> "user_1", fn |-> "none",
                                 controller |-> FALSE]>>
    /\ webhookEvents = <<>>
    /\ subscriptions = <<>>
    /\ transactions = <<>>
    /\ paymentMethods = <<>>
    /\ proc = [p \in Procs |-> IdleProc]
    /\ handledOk = {}
    /\ deliveries = 0
    /\ calc = NoCalc
    /\ link = [c \in Callers |-> IdleCall]

NextLink ==
    \E c \in Callers :
        \/ createCustomerForUser(c)
        \/ StripeController_createCustomerForUser(c)
        \/ createCustomerForUser_create(c)
        \/ createCustomerForUser_update(c)
        \/ createCustomerForUserData(c)
        \/ createCustomerForUserData_findOne(c)
        \/ createCustomerForUserData_create(c)
        \/ createCustomerForUserData_update(c)

SpecLink == InitLink /\ [][NextLink]_vars

----------------------------------------------------------------------------
(* Configuration: the constructor, createPaymentSession and                *)
(* createSubscriptionSession                                               *)

\* the values of PAYMENTS_MODE and of STRIPE_SECRET_KEY
PaymentsModes == {Unset, "none", "single", "subscription", "both"}
SecretKeys == {Unset, "sk_test"}

\* the head of a session-creating call: the configuration check and the
\* check of the mode against the two values that allow the call
SessionCallHead(r, modes, label) ==
    IF ~isEnabled THEN LinkThrown(r, "not configured")
    ELSE IF PaymentsMode(config) \notin modes THEN LinkThrown(r, "not enabled")
    ELSE [r EXCEPT !.pc = label]

\* await this.stripe.checkout.sessions.create(...): the session or an error
SessionsCreateStep(c, label, mode) ==
    /\ link[c].pc = label
    /\ \/ LinkSet(c, LinkReturned(link[c], [mode |-> mode]))
       \/ LinkSet(c, LinkThrown(link[c], "generic"))
    /\ UNCHANGED <<WebhookVars, config, isEnabled, users, customers>>

createPaymentSession(c) ==
    /\ link[c].pc \in {"idle", "done"}
    /\ LinkCalls < MaxSessionCalls
    /\ LinkSet(c, SessionCallHead(StartCall(c, "createPaymentSession", FALSE, PlaceholderUser),
                                  {"single", "both"}, "paymentSession.create"))
    /\ UNCHANGED <<WebhookVars, config, isEnabled, users, customers>>

createPaymentSession_create(c) ==
    SessionsCreateStep(c, "paymentSession.create", "payment")

createSubscriptionSession(c) ==
    /\ link[c].pc \in {"idle", "done"}
    /\ LinkCalls < MaxSessionCalls
    /\ LinkSet(c, SessionCallHead(StartCall(c, "createSubscriptionSession", FALSE, PlaceholderUser),
                                  {"subscription", "both"}, "subscriptionSession.create"))
    /\ UNCHANGED <<WebhookVars, config, isEnabled, users, customers>>

createSubscriptionSession_create(c) ==
    SessionsCreateStep(c, "subscriptionSession.create", "subscription")

\* the service constructed under each configuration
InitConfig ==
    /\ env = Unset
    /\ config \in [PAYMENTS_MODE : PaymentsModes, STRIPE_SECRET_KEY : SecretKeys]
    /\ isEnabled = constructor_isEnabled(config)
    /\ users = InitUsers
    /\ webhookEvents = <<>>
    /\ subscriptions = <<>>
    /\ transactions = <<>>
    /\ paymentMethods = <<>>
    /\ customers = <<>>
    /\ link = [c \in Callers |-> IdleCall]
    /\ proc = [p \in Procs |-> IdleProc]
    /\ handledOk = {}
    /\ deliveries = 0
    /\ calc = NoCalc

NextConfig ==
    \E c \in Callers :
        \/ createPaymentSession(c)
        \/ createPaymentSession_create(c)
        \/ createSubscriptionSession(c)
        \/ createSubscriptionSession_create(c)

SpecConfig == InitConfig /\ [][NextConfig]_vars

----------------------------------------------------------------------------
(* updateTransactionStatus, called by application code next to the handlers *)

\* the arguments of the calls: the payment intent of the events and one that
\* no transaction has
UpdateReferences == {"pi_1", "pi_x"}
UpdateStatuses == {"FAILED", "REFUNDED"}
UpdateReasons == {"undefined", "card_declined"}

\* updateData applied to a row: status, and metadata = { failureReason } when
\* the status is FAILED and a failure reason is given
UpdatedTransaction(row, status, failureReason) ==
    [row EXCEPT !.status = status,
                !.metadata = IF status = "FAILED" /\ failureReason # "undefined"
                             THEN [failureReason |-> failureReason]
                             ELSE @]

\* transactionRepository.update({ stripePaymentIntentId }, updateData)
UpdateTransactions_Upsert(rows, stripePaymentIntentId, status, failureReason) ==
    IF \E i \in DOMAIN rows : rows[i].stripePaymentIntentId = stripePaymentIntentId
    THEN [i \in DOMAIN rows |->
            IF rows[i].stripePaymentIntentId = stripePaymentIntentId
            THEN UpdatedTransaction(rows[i], status, failureReason)
            ELSE rows[i]]
    ELSE Append(rows, recordTransaction("user_1", stripePaymentIntentId, "PAYMENT",
                                        NoMoney, "usd", status, "undefined",
                                        [failureReason |-> failureReason],
                                        "undefined", NoMoney, NoMoney))
UpdateTransactions(rows, stripePaymentIntentId, status, failureReason) ==
    [i \in DOMAIN rows |->
        IF rows[i].stripePaymentIntentId = stripePaymentIntentId
        THEN UpdatedTransaction(rows[i], status, failureReason)
        ELSE rows[i]]

\* one call: the awaited update succeeds or throws
updateTransactionStatus(c) ==
    /\ link[c].pc \in {"idle", "done"}
    /\ LinkCalls < MaxStatusUpdates
    /\ \E id \in UpdateReferences, status \in UpdateStatuses, reason \in UpdateReasons :
          LET r == [StartCall(c, "updateTransactionStatus", FALSE, PlaceholderUser)
                      EXCEPT !.stripePaymentIntentId = id, !.status = status,
                             !.failureReason = reason]
          IN  \/ /\ transactions' = UpdateTransactions(transactions, id, status, reason)
                 /\ LinkSet(c, LinkReturned(r, "void"))
              \/ /\ LinkSet(c, LinkThrown(r, "generic"))
                 /\ UNCHANGED transactions
    /\ UNCHANGED <<config, isEnabled, calc, env, paymentMethods, customers, users,
                   webhookEvents, subscriptions, proc, handledOk, deliveries>>

NextStatus ==
    \/ NextTx
    \/ \E c \in Callers : updateTransactionStatus(c)

SpecStatus == InitTx /\ [][NextStatus]_vars

----------------------------------------------------------------------------
(* Claims on the dispatcher and the ledger, checked under Spec *)

Done(p) == proc[p].pc = "done"

\* the handler of this delivery was called and threw
HandlerFailed(p) == Done(p) /\ proc[p].ran /\ ~proc[p].hdone

\* C1: with logging on, a delivery of an event whose ledger row is already
\* COMPLETED calls no handler and returns success.
C1_DuplicateIsNoOpSuccess ==
    loggingEnabled =>
        \A p \in Procs :
            (Done(p) /\ proc[p].dup /\ proc[p].err # "signature")
                => (proc[p].result = "ok" /\ ~proc[p].ran)

\* C2: with logging on, of two deliveries of the same event id in flight at
\* most one gets to call the handler.
C2_OneHandlerPerEventId ==
    loggingEnabled =>
        \A p, q \in Procs :
            (p # q /\ proc[p].pc # "idle" /\ proc[q].pc # "idle"
                   /\ proc[p].ev = proc[q].ev)
                => ~(proc[p].ran /\ proc[q].ran)

\* two deliveries of one event: one is inside its handler, the other was
\* refused by the ledger insert
C2_Witness ==
    /\ loggingEnabled
    /\ \E p, q \in Procs :
          /\ p # q /\ proc[p].ev = proc[q].ev
          /\ proc[p].ran /\ ~Done(p) /\ ~proc[p].hdone
          /\ Done(q) /\ ~proc[q].ran /\ proc[q].err = "generic"

\* C3: the ledger never holds two rows with the same event id.
C3_OneRowPerEventId ==
    \A i, j \in DOMAIN webhookEvents :
        webhookEvents[i].stripeEventId = webhookEvents[j].stripeEventId => i = j

\* an event was delivered again after its row was COMPLETED, and again got
\* through logWebhookEvent
C3_Witness ==
    /\ Len(webhookEvents) >= 1
    /\ \E p \in Procs : Done(p) /\ proc[p].dup /\ proc[p].err = "generic"

\* the status edges of a ledger row
LedgerEdges ==
    {<<PENDING, COMPLETED>>, <<PENDING, FAILED>>, <<FAILED, RETRYING>>,
     <<RETRYING, COMPLETED>>, <<RETRYING, FAILED>>}

\* C4: every change of a row's processingStatus is one of the five edges; a
\* COMPLETED row keeps its status.
C4_LedgerTransitions ==
    [][\A i \in DOMAIN webhookEvents :
          webhookEvents'[i].processingStatus # webhookEvents[i].processingStatus
            => <<webhookEvents[i].processingStatus,
                 webhookEvents'[i].processingStatus>> \in LedgerEdges]_vars

\* a COMPLETED row whose event was delivered once more, next to a FAILED row
C4_Witness ==
    /\ \E i \in DOMAIN webhookEvents :
          /\ webhookEvents[i].processingStatus = COMPLETED
          /\ \E p \in Procs :
                Done(p) /\ proc[p].dup /\ proc[p].ev = webhookEvents[i].stripeEventId
    /\ \E i \in DOMAIN webhookEvents : webhookEvents[i].processingStatus = FAILED

\* C5: with logging on, after a delivery whose handler threw, the row of the
\* event is FAILED or RETRYING, carries the error message and has retryCount
\* raised by one.
C5_HandlerFailureIsRecorded ==
    loggingEnabled =>
        \A p \in Procs :
            HandlerFailed(p) =>
                \E i \in EventRows(proc[p].ev) :
                    /\ webhookEvents[i].processingStatus \in {FAILED, RETRYING}
                    /\ webhookEvents[i].errorMessage # "none"
                    /\ webhookEvents[i].retryCount = 1

\* C6: a delivery that returned success has left its switch without error,
\* and with logging on its row is COMPLETED with processedAt set; while the
\* handler of a logged delivery has not returned the row is not COMPLETED.
C6_SuccessAfterHandler ==
    \A p \in Procs :
        /\ (Done(p) /\ proc[p].result = "ok") =>
              /\ proc[p].hdone
              /\ loggingEnabled =>
                    \E i \in EventRows(proc[p].ev) :
                        /\ webhookEvents[i].processingStatus = COMPLETED
                        /\ ~webhookEvents[i].processedAt.isNull
        /\ (proc[p].loggedEvent /\ ~proc[p].hdone) =>
              \A i \in EventRows(proc[p].ev) :
                  webhookEvents[i].processingStatus # COMPLETED

\* a logged delivery that called a handler and returned success
C6_Witness ==
    \E p \in Procs :
        Done(p) /\ proc[p].result = "ok" /\ proc[p].ran /\ proc[p].loggedEvent

\* C7: a COMPLETED row belongs to an event whose dispatch returned without
\* an error.
C7_CompletedOnlyAfterSuccess ==
    \A i \in DOMAIN webhookEvents :
        webhookEvents[i].processingStatus = COMPLETED
            => webhookEvents[i].stripeEventId \in handledOk

\* a COMPLETED row next to the row of a delivery whose handler threw
C7_Witness ==
    /\ \E i \in DOMAIN webhookEvents : webhookEvents[i].processingStatus = COMPLETED
    /\ \E p \in Procs :
          /\ HandlerFailed(p) /\ proc[p].loggedEvent
          /\ \A i \in EventRows(proc[p].ev) :
                webhookEvents[i].processingStatus # COMPLETED

\* C8: a delivery in which the handler or a ledger write raised an error
\* ends with the error thrown to the caller, never with success.
C8_ErrorsAreRethrown ==
    \A p \in Procs :
        (Done(p) /\ (proc[p].raised \/ (proc[p].ran /\ ~proc[p].hdone)))
            => proc[p].result = "error"

\* with logging on, a handler failure that went through the catch block's
\* status update and a ledger-write failure, both ended in an error
C8_Witness ==
    /\ loggingEnabled
    /\ \E p, q \in Procs :
          /\ HandlerFailed(p) /\ proc[p].err = "names" /\ proc[p].result = "error"
          /\ Done(q) /\ proc[q].raised /\ ~proc[q].ran /\ proc[q].result = "error"

----------------------------------------------------------------------------
(* Claims on the subscription handlers, checked under SpecSub *)

SaveLabels == {"updated.save", "deleted.save", "invoiceFailed.save"}

\* the step in which delivery p's awaited save of its entity succeeds
Saves(p) ==
    /\ proc[p].pc \in SaveLabels
    /\ proc'[p].pc # proc[p].pc
    /\ proc'[p].err = "none"

\* C9: when handleInvoicePaymentFailed read the subscription as ACTIVE with
\* failedPaymentCount 0, its save leaves the row PAST_DUE with count 1,
\* whatever status the processor reports in the event.
C9_FirstFailureForcesPastDue ==
    [][\A p \in Procs :
          (/\ Saves(p) /\ proc[p].pc = "invoiceFailed.save"
           /\ proc[p].read.status = ACTIVE
           /\ proc[p].read.failedPaymentCount = 0)
            => /\ subscriptions'[proc[p].subIdx].status = PAST_DUE
               /\ subscriptions'[proc[p].subIdx].failedPaymentCount = 1]_vars

\* the handler has saved: the row it read as ACTIVE with count 0 is PAST_DUE
\* with count 1, while the processor reports the subscription as active
C9_Witness ==
    \E p \in Procs :
        /\ proc[p].pc = "invoiceFailed.retrieve" /\ proc[p].subIdx # 0
        /\ proc[p].ev.status = "active"
        /\ proc[p].read.status = ACTIVE /\ proc[p].read.failedPaymentCount = 0
        /\ subscriptions[proc[p].subIdx].status = PAST_DUE
        /\ subscriptions[proc[p].subIdx].failedPaymentCount = 1

ReadDeleted(p) ==
    /\ proc[p].read.status = CANCELED
    /\ ~proc[p].read.canceledAt.isNull
    /\ ~proc[p].read.endedAt.isNull

\* C11: a subscription-updated event handled after the deletion of the
\* subscription (its handler read the deleted row) leaves the status
\* CANCELED.
C11_DeletionIsTerminal ==
    [][\A p \in Procs :
          (Saves(p) /\ proc[p].pc = "updated.save" /\ ReadDeleted(p))
            => subscriptions'[proc[p].subIdx].status = CANCELED]_vars

\* C12: the save of handleSubscriptionDeleted leaves the row of the event's
\* subscription id CANCELED with canceledAt and endedAt set, whatever its
\* status was, and removes no row.
C12_DeletedIsCanceled ==
    [][\A p \in Procs :
          (Saves(p) /\ proc[p].pc = "deleted.save") =>
            LET after == subscriptions'[proc[p].subIdx]
            IN  /\ after.stripeSubscriptionId = proc[p].ev.subscription
                /\ after.status = CANCELED
                /\ ~after.canceledAt.isNull
                /\ ~after.endedAt.isNull
                /\ Len(subscriptions') = Len(subscriptions)]_vars

\* a subscription-deleted delivery has returned and the row is still there,
\* CANCELED with both dates, after two failed payments
C12_Witness ==
    /\ \E p \in Procs :
          Done(p) /\ proc[p].hdone
                  /\ proc[p].ev.type = "customer.subscription.deleted"
    /\ Len(subscriptions) = 1
    /\ subscriptions[1].status = CANCELED
    /\ subscriptions[1].failedPaymentCount = 2
    /\ ~subscriptions[1].canceledAt.isNull
    /\ ~subscriptions[1].endedAt.isNull

\* the status edges of a subscription row, deletion apart
SubscriptionEdges ==
    {<<INCOMPLETE, TRIALING>>, <<TRIALING, ACTIVE>>, <<ACTIVE, PAST_DUE>>,
     <<PAST_DUE, ACTIVE>>, <<PAST_DUE, UNPAID>>, <<PAST_DUE, CANCELED>>}

\* C13: a handler that saves a status other than the one it read follows
\* one of the six edges, or is the deletion saving CANCELED.
C13_StatusEdges ==
    [][\A p \in Procs :
          Saves(p) =>
            LET before == proc[p].read.status
                after == subscriptions'[proc[p].subIdx].status
            IN  after # before =>
                    \/ <<before, after>> \in SubscriptionEdges
                    \/ proc[p].pc = "deleted.save" /\ after = CANCELED]_vars

\* C14: handleSubscriptionUpdated and handleSubscriptionDeleted for a
\* subscription id without a row change no row, add none, and return
\* without an error.
C14_MissingRecordIsNoOp ==
    [][\A p \in Procs :
          (/\ proc[p].pc \in {"updated.findOne", "deleted.findOne"}
           /\ FindSubscription(proc[p].ev.subscription) = 0
           /\ proc'[p].pc # proc[p].pc
           /\ proc'[p].err = "none")
            => /\ subscriptions' = subscriptions
               /\ proc'[p].pc = "done"
               /\ proc'[p].hdone
               /\ proc'[p].result = "ok"]_vars

\* an update and a deletion of sub_2 have both returned without an error
\* while the store holds the row of sub_1 only
C14_Witness ==
    /\ Len(subscriptions) = 1
    /\ subscriptions[1].stripeSubscriptionId = "sub_1"
    /\ \E p, q \in Procs :
          /\ Done(p) /\ proc[p].ev = UnknownSubscriptionUpdated
          /\ proc[p].ran /\ proc[p].hdone /\ proc[p].result = "ok"
          /\ Done(q) /\ proc[q].ev = UnknownSubscriptionDeleted
          /\ proc[q].ran /\ proc[q].hdone /\ proc[q].result = "ok"

\* C15: the store never holds two subscription rows with the same
\* stripeSubscriptionId.
C15_OneRowPerSubscriptionId ==
    \A i, j \in DOMAIN subscriptions :
        subscriptions[i].stripeSubscriptionId = subscriptions[j].stripeSubscriptionId
            => i = j

\* two subscription-created deliveries of user_1 for the same subscription
\* id: the handler of one returned, the handler of the other threw
C15_Witness ==
    /\ Len(subscriptions) = 1
    /\ \E p, q \in Procs :
          /\ proc[p].ev = SubscriptionCreated("cus_1", "active")
          /\ proc[q].ev = SubscriptionCreated("cus_1", "active")
          /\ Done(p) /\ proc[p].ran /\ proc[p].hdone
          /\ Done(q) /\ proc[q].ran /\ ~proc[q].hdone

----------------------------------------------------------------------------
(* Claims on the timestamp functions, checked under SpecPure *)

\* a candidate the conversion accepts
Qualifies(t) == ~convertStripeTimestamp(t).isNull

\* the first qualifying candidate of a, b, c converted, null when there is none
FirstQualifying(a, b, c) ==
    IF Qualifies(a) THEN convertStripeTimestamp(a)
    ELSE IF Qualifies(b) THEN convertStripeTimestamp(b)
    ELSE IF Qualifies(c) THEN convertStripeTimestamp(c)
    ELSE NullDate

\* C16: the period start resolved from item-level period start, billing
\* cycle anchor and creation time is the first of them that qualifies,
\* converted, and null only when none qualifies.
C16_FirstQualifyingCandidate ==
    calc.op = "updated.periodStart" =>
        calc.out = FirstQualifying(calc.a, calc.b, calc.c)

\* neither null nor undefined
Present(t) == t.kind \notin {"null", "undefined"}

\* C17: the row handleSubscriptionCreated builds has currentPeriodStart at
\* the creation time when only the creation timestamp is given, null when
\* none of the three candidates is given, and never the epoch-zero date.
C17_CreatedFallback ==
    calc.op = "created.currentPeriodStart" =>
        /\ (~Present(calc.a) /\ ~Present(calc.b) /\ calc.c.kind = "number" /\ calc.c.v > 0)
              => calc.out = DateOf(calc.c.v * 1000)
        /\ (~Present(calc.a) /\ ~Present(calc.b) /\ ~Present(calc.c))
              => calc.out = NullDate
        /\ calc.out # DateOf(0)

\* the row was built from a creation timestamp alone
C17_Witness ==
    /\ calc.op = "created.currentPeriodStart"
    /\ calc.a = JsUndefined /\ calc.b = JsNull /\ calc.c = Num(MaxSeconds)
    /\ calc.out = DateOf(MaxSeconds * 1000)

\* C18: convertStripeTimestamp returns null for null, undefined, a
\* non-number, NaN, zero and a negative number, and the date of that many
\* epoch seconds for every other input.
C18_ConvertRejectsInvalid ==
    calc.op = "convertStripeTimestamp" =>
        calc.out = IF calc.a.kind = "number" /\ calc.a.v > 0
                   THEN DateOf(calc.a.v * 1000)
                   ELSE NullDate

----------------------------------------------------------------------------
(* Claims on the recorded transactions, checked under SpecTx *)

RecordLabels ==
    {"checkout.record", "invoiceSucceeded.record", "invoiceFailed.record",
     "piSucceeded.record", "piFailed.record", "piCanceled.record",
     "refunded.record"}

\* the step in which delivery p's awaited recordTransaction succeeds
Records(p) ==
    /\ proc[p].pc \in RecordLabels
    /\ proc'[p].recorded = proc[p].recorded + 1

\* the amount of the event in minor units, as the processor sends it
MinorAmount(e) ==
    CASE e.type = "checkout.session.completed" -> e.amount_total
      [] e.type = "invoice.payment_succeeded" -> e.amount_paid
      [] e.type = "invoice.payment_failed" -> e.amount_due
      [] e.type = "charge.refunded" ->
            IF e.refund_amount.kind = "number" THEN e.refund_amount.v
            ELSE e.amount_refunded
      [] OTHER -> e.amount

\* the row a successful recordTransaction has just appended
Recorded == transactions'[Len(transactions')]

\* C19: the amount of every transaction a handler records is the event's
\* minor-unit amount divided by 100.
C19_AmountsInMajorUnit ==
    [][\A p \in Procs :
          Records(p) => Recorded.amount = Money(MinorAmount(proc[p].ev) \div 100,
                                                MinorAmount(proc[p].ev) % 100)]_vars

\* C20: the recordTransaction of handleInvoicePaymentFailed appends one row
\* with amount_due / 100, the upper-cased currency, status FAILED and type
\* SUBSCRIPTION; a delivery of the event for a known customer that returned
\* has recorded exactly one transaction.
C20_FailedInvoiceTransaction ==
    [][\A p \in Procs :
          /\ (Records(p) /\ proc[p].pc = "invoiceFailed.record") =>
                /\ Len(transactions') = Len(transactions) + 1
                /\ Recorded.amount = Money(proc[p].ev.amount_due \div 100,
                                           proc[p].ev.amount_due % 100)
                /\ Recorded.currency =
                      (CASE proc[p].ev.currency = "usd" -> "USD"
                         [] proc[p].ev.currency = "eur" -> "EUR")
                /\ Recorded.status = "FAILED"
                /\ Recorded.transactionType = "SUBSCRIPTION"
          /\ (/\ proc'[p].pc = "done" /\ proc'[p].hdone
              /\ proc'[p].ev.type = "invoice.payment_failed"
              /\ FindUser(proc'[p].ev.customer) # NoUser)
                => proc'[p].recorded = 1]_vars

\* an invoice.payment_failed of 1999 eur has returned: the one transaction
\* is 19.99 EUR, FAILED, SUBSCRIPTION
C20_Witness ==
    /\ \E p \in Procs :
          /\ Done(p) /\ proc[p].hdone /\ proc[p].recorded = 1
          /\ proc[p].ev = InvoicePaymentFailedOf(1999, "eur")
    /\ Len(transactions) = 1
    /\ transactions[1].amount = Money(19, 99)
    /\ transactions[1].currency = "EUR"
    /\ transactions[1].status = "FAILED"
    /\ transactions[1].transactionType = "SUBSCRIPTION"

\* C21: a recorded transaction has stripeFee and netAmount at fee / 100 and
\* net / 100 of the balance transaction when the handler had one, and at
\* zero and the recorded amount when it had none.
C21_FeeAndNetDefaults ==
    [][\A p \in Procs :
          Records(p) =>
            LET bt == proc[p].balanceTransaction
            IN  IF bt.present
                THEN /\ Recorded.stripeFee = Money(bt.fee \div 100, bt.fee % 100)
                     /\ Recorded.netAmount = Money(bt.net \div 100, bt.net % 100)
                ELSE /\ Recorded.stripeFee = Money(0, 0)
                     /\ Recorded.netAmount = Recorded.amount]_vars

----------------------------------------------------------------------------
(* Claims on the dispatcher with all handlers, checked under Spec and SpecAll *)

\* C22: a delivery in which stripe.paymentIntents.retrieve threw ends with
\* an error, and the ledger row of its event is not COMPLETED.
C22_LookupFailureIsSurfaced ==
    \A p \in Procs :
        (Done(p) /\ proc[p].lookupFailed) =>
            /\ proc[p].result = "error"
            /\ \A i \in EventRows(proc[p].ev) :
                  webhookEvents[i].processingStatus # COMPLETED

\* the event names a customer that no user has
Miss(e) == e.customer = "cus_x"

\* the ledger row of delivery r's event is COMPLETED
RowCompleted(rows, r) ==
    \E i \in DOMAIN rows :
        /\ rows[i].stripeEventId = r.ev
        /\ rows[i].processingStatus = COMPLETED

\* C23: a delivery of an event whose customer has no user changes no
\* transaction, subscription or payment method; when no store call fails it
\* returns without an error, and with logging on its row is COMPLETED.
C23_CorrelationMissIsNoOp ==
    [][\A p \in Procs :
          (proc'[p] # proc[p] /\ Miss(proc'[p].ev)) =>
            /\ UNCHANGED <<transactions, subscriptions, paymentMethods>>
            /\ (proc'[p].pc = "done" /\ proc'[p].err = "none") =>
                  /\ proc'[p].ran /\ proc'[p].hdone /\ proc'[p].result = "ok"
                  /\ loggingEnabled => RowCompleted(webhookEvents', proc'[p])]_vars

\* with logging on, a subscription-created and a payment-intent-succeeded
\* event of an unknown customer have returned: rows COMPLETED, tables empty
C23_Witness ==
    /\ loggingEnabled
    /\ subscriptions = <<>> /\ transactions = <<>> /\ paymentMethods = <<>>
    /\ \E p, q \in Procs :
          /\ Done(p) /\ proc[p].ev = SubscriptionCreated("cus_x", "active")
          /\ proc[p].result = "ok" /\ RowCompleted(webhookEvents, proc[p])
          /\ Done(q)
          /\ proc[q].ev = PaymentIntentEvent("payment_intent.succeeded", "cus_x",
                                             "none", 5000, "usd")
          /\ proc[q].result = "ok" /\ RowCompleted(webhookEvents, proc[q])

\* the handler of each supported type; payment_intent.created is log-only
ExpectedHandler(type) ==
    CASE type = "checkout.session.completed" -> "handleCheckoutSessionCompleted"
      [] type = "invoice.payment_succeeded" -> "handleInvoicePaymentSucceeded"
      [] type = "invoice.payment_failed" -> "handleInvoicePaymentFailed"
      [] type = "invoice.upcoming" -> "handleInvoiceUpcoming"
      [] type = "payment_method.attached" -> "handlePaymentMethodAttached"
      [] type = "customer.subscription.created" -> "handleSubscriptionCreated"
      [] type = "customer.subscription.updated" -> "handleSubscriptionUpdated"
      [] type = "customer.subscription.deleted" -> "handleSubscriptionDeleted"
      [] type = "customer.subscription.trial_will_end" -> "handleSubscriptionTrialWillEnd"
      [] type = "payment_intent.succeeded" -> "handlePaymentIntentSucceeded"
      [] type = "payment_intent.payment_failed" -> "handlePaymentIntentFailed"
      [] type = "payment_intent.canceled" -> "handlePaymentIntentCanceled"
      [] type = "charge.refunded" -> "handleChargeRefunded"
      [] OTHER -> "none"

\* the positions inside each handler
HandlerLabels(h) ==
    CASE h = "handleCheckoutSessionCompleted" -> {"checkout.findUser", "checkout.record"}
      [] h = "handleInvoicePaymentSucceeded" ->
            {"invoiceSucceeded.findUser", "invoiceSucceeded.retrieve",
             "invoiceSucceeded.record"}
      [] h = "handleInvoicePaymentFailed" ->
            {"invoiceFailed.findUser", "invoiceFailed.findOne", "invoiceFailed.save",
             "invoiceFailed.retrieve", "invoiceFailed.record"}
      [] h = "handleInvoiceUpcoming" -> {"upcoming.findUser"}
      [] h = "handlePaymentMethodAttached" -> {"attached.findUser", "attached.save"}
      [] h = "handleSubscriptionCreated" -> {"created.findUser", "created.save"}
      [] h = "handleSubscriptionUpdated" -> {"updated.findOne", "updated.save"}
      [] h = "handleSubscriptionDeleted" -> {"deleted.findOne", "deleted.save"}
      [] h = "handleSubscriptionTrialWillEnd" ->
            {"trialWillEnd.findUser", "trialWillEnd.findOne"}
      [] h = "handlePaymentIntentSucceeded" ->
            {"piSucceeded.findUser", "piSucceeded.retrieve", "piSucceeded.record"}
      [] h = "handlePaymentIntentFailed" -> {"piFailed.findUser", "piFailed.record"}
      [] h = "handlePaymentIntentCanceled" -> {"piCanceled.findUser", "piCanceled.record"}
      [] h = "handleChargeRefunded" -> {"refunded.findUser", "refunded.record"}
      [] OTHER -> {}

\* the positions of handleWebhookEvent outside the handlers
DispatcherLabels ==
    {"idle", "logWebhookEvent", "markPending", "markCompleted",
     "catch.increment", "catch.update", "done"}

\* C24: a delivery calls no handler but the one of its event's type and is
\* never inside another one; a delivery that got past the switch called it.
\* A delivery of a type without a case changes no transaction, subscription,
\* payment method or user, and when no ledger write fails it returns
\* success, with logging on with its row COMPLETED.
C24_DispatchByType ==
    [][\A p \in Procs :
          LET r == proc'[p]
              expected == ExpectedHandler(r.ev.type)
          IN  /\ r.handler \in {"none", expected}
              /\ r.ran = (r.handler # "none")
              /\ r.pc \in DispatcherLabels \cup HandlerLabels(r.handler)
              /\ r.hdone => r.handler = expected
              /\ (proc'[p] # proc[p] /\ r.ev.type = "customer.created") =>
                    /\ UNCHANGED <<transactions, subscriptions, paymentMethods, users>>
                    /\ ~r.ran
                    /\ (r.pc = "done" /\ r.err = "none") =>
                          /\ r.result = "ok"
                          /\ loggingEnabled => RowCompleted(webhookEvents', r)]_vars

\* with logging on, an event of a type without a case and a subscription
\* deletion have both returned: the first called no handler, the second its
\* own, and both rows are COMPLETED
C24_Witness ==
    /\ loggingEnabled
    /\ \E p, q \in Procs :
          /\ Done(p) /\ proc[p].ev = Unhandled /\ ~proc[p].ran
          /\ proc[p].result = "ok" /\ RowCompleted(webhookEvents, proc[p])
          /\ Done(q) /\ proc[q].ev = SubscriptionDeleted
          /\ proc[q].handler = "handleSubscriptionDeleted"
          /\ proc[q].result = "ok" /\ RowCompleted(webhookEvents, proc[q])
          /\ Len(subscriptions) = 1 /\ subscriptions[1].status = CANCELED

\* C25: with logging off the ledger stays empty, no delivery holds a ledger
\* row, and every delivery that got past the signature check reaches the
\* switch and calls the handler of its type, a repeated delivery of an
\* event included.
C25_DisabledAdmitsEveryDelivery ==
    ~loggingEnabled =>
        /\ webhookEvents = <<>>
        /\ \A p \in Procs :
              /\ ~proc[p].loggedEvent
              /\ (proc[p].pc \notin {"idle", "logWebhookEvent"} /\ proc[p].err # "signature")
                    => proc[p].ran = (ExpectedHandler(proc[p].ev.type) # "none")

\* with logging off the same payment-intent failure was delivered twice and
\* handled twice
C25_Witness ==
    /\ ~loggingEnabled
    /\ webhookEvents = <<>>
    /\ Len(transactions) = 2
    /\ \E p, q \in Procs :
          /\ p # q /\ proc[p].ev = proc[q].ev
          /\ proc[p].ev.type = "payment_intent.payment_failed"
          /\ Done(p) /\ proc[p].hdone /\ proc[p].recorded = 1
          /\ Done(q) /\ proc[q].hdone /\ proc[q].recorded = 1

\* C26: unless STRIPE_WEBHOOK_LOGGING_ENABLED is set to 'true' no ledger row
\* is written; when it is 'true' every delivery that got past logWebhookEvent
\* without an error has its row.
C26_LoggingOnlyWhenTrue ==
    /\ env # "true" =>
          (webhookEvents = <<>> /\ \A p \in Procs : ~proc[p].loggedEvent)
    /\ env = "true" =>
          \A p \in Procs :
              (proc[p].pc \notin {"idle", "logWebhookEvent"} /\ proc[p].err = "none")
                  => (proc[p].loggedEvent \/ Done(p)) /\ EventRows(proc[p].ev) # {}

\* the toggle is set to 'TRUE': a handler ran and the ledger is empty
C26_Witness ==
    /\ env = "TRUE"
    /\ webhookEvents = <<>>
    /\ \E p \in Procs : Done(p) /\ proc[p].ran /\ proc[p].hdone

----------------------------------------------------------------------------
(* Claims on concurrent handlers of one subscription, checked under SpecSub *)

\* C27: a handler saves its subscription entity only over the row it read:
\* no other handler has written the row between the findOne and the save,
\* so no update is lost and two concurrent failures count as two.
C27_NoLostUpdate ==
    [][\A p \in Procs :
          Saves(p) => subscriptions[proc[p].subIdx] = proc[p].read]_vars

----------------------------------------------------------------------------
(* Claims on the customer linker, checked under SpecLink *)

\* the customers of the processor that calls of the service made, the
\* calls of the controller with its made-up user object left out
LinkedCustomers ==
    {i \in DOMAIN customers :
        customers[i].fn # "none" /\ ~customers[i].controller}

\* C28: the calls of createCustomerForUser with a loaded user entity and of
\* createCustomerForUserData, however interleaved, create at most one
\* customer of the processor for the user.
C28_AtMostOneRemoteCustomer == Cardinality(LinkedCustomers) <= 1

\* C29: no step changes a stripeCustomerId that a user row holds.
C29_CustomerIdNeverReassigned ==
    [][\A u \in DOMAIN users :
          users[u].stripeCustomerId # "none" =>
              users'[u].stripeCustomerId = users[u].stripeCustomerId]_vars

\* the step in which caller c finds the customer id on the user it was
\* given (createCustomerForUser) or has read (createCustomerForUserData)
FindsCustomer(c) ==
    /\ isEnabled
    /\ link'[c] # link[c]
    /\ link'[c].err = "none"
    /\ \/ /\ link[c].pc \in {"idle", "done"}
          /\ link'[c].fn = "createCustomerForUser"
          /\ link'[c].user.stripeCustomerId # "none"
       \/ /\ link[c].pc = "forUserData.findOne"
          /\ users["user_1"].stripeCustomerId # "none"

----------------------------------------------------------------------------
(* Claims on the status mapping, checked under SpecPure *)

\* the processor's statuses that have a local status of the same name
SameNamed ==
    [trialing |-> TRIALING, active |-> ACTIVE, past_due |-> PAST_DUE,
     canceled |-> CANCELED, unpaid |-> UNPAID, incomplete |-> INCOMPLETE]

\* C31: mapStripeSubscriptionStatus returns the local status of the same
\* name for trialing, active, past_due, canceled, unpaid and incomplete, and
\* ACTIVE for every other string.
C31_StatusMappingIsTotal ==
    calc.op = "mapStripeSubscriptionStatus" =>
        calc.mapped = IF calc.status \in DOMAIN SameNamed
                      THEN SameNamed[calc.status]
                      ELSE ACTIVE

\* the mapping was given 'incomplete', and it was given a status it has no
\* case for
C31_Witness ==
    /\ calc.op = "mapStripeSubscriptionStatus"
    /\ \/ calc.status = "incomplete" /\ calc.mapped = INCOMPLETE
       \/ calc.status = "paused" /\ calc.mapped = ACTIVE

----------------------------------------------------------------------------
(* Claims on the transaction table, checked under SpecStatus and SpecTx *)

\* the step in which caller c calls updateTransactionStatus
UpdatesStatus(c) ==
    /\ link'[c].n = link[c].n + 1
    /\ link'[c].fn = "updateTransactionStatus"

\* the rows with the reference the call of caller c was given
Matching(c) ==
    {i \in DOMAIN transactions :
        transactions[i].stripePaymentIntentId = link'[c].stripePaymentIntentId}

\* C32: a call of updateTransactionStatus with a reference that no
\* transaction has leaves the table as it is, and returns without an error
\* unless the store itself fails.
C32_UpdateWithoutMatchIsNoOp ==
    [][\A c \in Callers :
          (UpdatesStatus(c) /\ Matching(c) = {}) =>
            /\ UNCHANGED transactions
            /\ link'[c].pc = "done"
            /\ link'[c].err \in {"none", "generic"}
            /\ link'[c].err = "none" => link'[c].result = "void"]_vars

\* two transactions of pi_1 are stored, and a call for pi_x has returned
C32_Witness ==
    /\ Len(transactions) = 2
    /\ \E c \in Callers :
          /\ link[c].pc = "done" /\ link[c].fn = "updateTransactionStatus"
          /\ link[c].stripePaymentIntentId = "pi_x"
          /\ link[c].err = "none" /\ link[c].result = "void"
          /\ \A i \in DOMAIN transactions :
                /\ transactions[i].stripePaymentIntentId = "pi_1"
                /\ transactions[i].status \in {"COMPLETED", "CANCELLED"}

\* C33: no step removes a transaction; a call of updateTransactionStatus
\* changes nothing but status and failureReason, and only of the rows with
\* its reference; every other step leaves every stored row as it is.
C33_ImmutableButStatus ==
    [][\A i \in DOMAIN transactions :
          /\ i \in DOMAIN transactions'
          /\ IF \E c \in Callers : UpdatesStatus(c) /\ i \in Matching(c)
             THEN transactions'[i] =
                    [transactions[i] EXCEPT
                        !.status = transactions'[i].status,
                        !.failureReason = transactions'[i].failureReason]
             ELSE transactions'[i] = transactions[i]]_vars

\* C34: the currency of every stored transaction is an upper-case code.
C34_CurrencyIsUpperCase ==
    \A i \in DOMAIN transactions : transactions[i].currency \in {"USD", "EUR"}

\* payments in 'Usd' and in 'eur' were recorded as USD and EUR
C34_Witness ==
    /\ Len(transactions) = 2
    /\ transactions[1].currency = "USD" /\ transactions[2].currency = "EUR"
    /\ \E p, q \in Procs :
          /\ Done(p) /\ proc[p].recorded = 1 /\ proc[p].ev.currency = "Usd"
          /\ Done(q) /\ proc[q].recorded = 1 /\ proc[q].ev.currency = "eur"

----------------------------------------------------------------------------
(* Claims on the trial dates, checked under SpecTrial *)

\* C35: every subscription row has trialStartDate and trialEndDate both set
\* or both null.
C35_TrialDatesTogether ==
    \A i \in DOMAIN subscriptions :
        subscriptions[i].trialStartDate.isNull = subscriptions[i].trialEndDate.isNull

\* a creation with trial_start and without trial_end has left a row with
\* neither date, and an update carrying a trial_start was saved after it
C35_Witness ==
    /\ Len(subscriptions) = 1
    /\ subscriptions[1].trialStartDate.isNull /\ subscriptions[1].trialEndDate.isNull
    /\ subscriptions[1].status = ACTIVE
    /\ \E p, q \in Procs :
          /\ Done(p) /\ proc[p].hdone
          /\ proc[p].ev = SubscriptionCreatedTrial(Num(1), JsNull)
          /\ Done(q) /\ proc[q].hdone
          /\ proc[q].ev.type = "customer.subscription.updated"

----------------------------------------------------------------------------
(* Claims on the configuration, checked under SpecConfig *)

\* C36: with PAYMENTS_MODE not set and a secret key given, the service is
\* enabled, and no call of createPaymentSession or createSubscriptionSession
\* is refused for the configuration or the mode.
C36_DefaultModeIsBoth ==
    (config.PAYMENTS_MODE = Unset /\ config.STRIPE_SECRET_KEY # Unset) =>
        /\ isEnabled
        /\ \A c \in Callers : link[c].err \notin {"not configured", "not enabled"}

----------------------------------------------------------------------------
(* Claims on the failure count, checked under SpecSub *)

\* C37: every subscription row whose status is ACTIVE has failedPaymentCount 0.
C37_ActiveHasNoFailures ==
    \A i \in DOMAIN subscriptions :
        subscriptions[i].status = ACTIVE => subscriptions[i].failedPaymentCount = 0

\* C38: when the recordTransaction of handleInvoicePaymentFailed throws, the
\* subscription row the handler worked on has the failedPaymentCount and
\* the status the handler read.
C38_FailedHandlerLeavesSubscription ==
    [][\A p \in Procs :
          (/\ proc[p].pc = "invoiceFailed.record"
           /\ proc'[p].raised
           /\ proc[p].subIdx # 0) =>
            LET row == subscriptions'[proc[p].subIdx]
            IN  /\ row.failedPaymentCount = proc[p].read.failedPaymentCount
                /\ row.status = proc[p].read.status]_vars

----------------------------------------------------------------------------
(* Claims on redelivery, checked under Spec *)

\* delivery p is the redelivery of an event whose earlier attempt ended in
\* an error and left the ledger row of the event not COMPLETED
Redelivered(p) ==
    /\ proc[p].pc = "logWebhookEvent"
    /\ \E i \in EventRows(proc[p].ev) : webhookEvents[i].processingStatus # COMPLETED
    /\ \E q \in Procs \ {p} :
          /\ Done(q) /\ proc[q].ev = proc[p].ev
          /\ proc[q].result = "error" /\ proc[q].err # "signature"

\* logWebhookEvent lets delivery p through to the switch
Admits(p) == logWebhookEvent(p) /\ proc'[p].err = "none"

\* C39: with logging on, the redelivery of an event whose earlier attempt
\* failed can get past logWebhookEvent to its handler.
C39_RedeliveryIsAdmitted ==
    loggingEnabled => \A p \in Procs : Redelivered(p) => ENABLED Admits(p)

----------------------------------------------------------------------------
(* Claims on the events of one payment, checked under SpecTx *)

\* the events the processor emits for one successful one-time payment and
\* for one successful subscription payment
OneTimePayment ==
    {CheckoutSessionCompleted("cus_1", "payment", 5000, "usd"),
     PaymentIntentEvent("payment_intent.succeeded", "cus_1", "none", 5000, "usd")}

SubscriptionPayment ==
    {SubscriptionCheckout,
     InvoicePaymentSucceeded("cus_1", 5000, "usd"),
     PaymentIntentEvent("payment_intent.succeeded", "cus_1", "in_1", 5000, "usd")}

\* every stored transaction was recorded by a delivery still on record,
\* these deliveries are of different events, and all are events of payment
DeliveredOnceOf(payment) ==
    /\ \A p \in Procs : proc[p].ev \in payment \cup {NoEvent}
    /\ \A p, q \in Procs : (p # q /\ proc[p].ev # NoEvent) => proc[p].ev # proc[q].ev
    /\ Len(transactions) = proc["d1"].recorded + proc["d2"].recorded

\* the COMPLETED transactions with an external reference
CompletedOf(ref) ==
    {i \in DOMAIN transactions :
        /\ transactions[i].stripePaymentIntentId = ref
        /\ transactions[i].status = "COMPLETED"}

\* C40: while only events of one payment have been delivered, each once, no
\* external reference has more than one COMPLETED transaction.
C40_OneCompletedPerReference ==
    \A payment \in {OneTimePayment, SubscriptionPayment} :
        DeliveredOnceOf(payment) =>
            \A i \in DOMAIN transactions :
                Cardinality(CompletedOf(transactions[i].stripePaymentIntentId)) <= 1

====
